---- MODULE Spec2Model ----
(***************************************************************************)
(* Model of the Tilda -> Bitrix24 bridge (app/main.py, app/bitrix.py,      *)
(* app/mapping.py, app/config.py, app/logger.py).                          *)
(*                                                                         *)
(* Strings are sequences of one-character strings, so that strip, split,   *)
(* lower-casing and substring search are computed as the code computes     *)
(* them.  The parser accepts ASCII only: Cyrillic text of the source is    *)
(* written in Latin transliteration, letter case kept ("Pokaz" for the     *)
(* keyword of config.py line 33, and so on).                               *)
(*                                                                         *)
(* Python values are tagged records: None, S(string), L(list), I(int).     *)
(***************************************************************************)
EXTENDS Integers, Sequences, FiniteSets, TLC

-----------------------------------------------------------------------------
(* Python values *)

None == [t |-> "none"]
S(s) == [t |-> "str", v |-> s]
L(l) == [t |-> "list", v |-> l]
I(n) == [t |-> "int", v |-> n]
D(d) == [t |-> "dict", v |-> d]

\* Python truthiness of a value
Truthy(value) ==
    CASE value.t = "none" -> FALSE
      [] value.t = "str"  -> value.v # <<>>
      [] value.t = "list" -> value.v # <<>>
      [] value.t = "int"  -> value.v # 0
      [] OTHER -> TRUE

\* dict.get(key) with the default None
dict_get(d, key) == IF key \in DOMAIN d THEN d[key] ELSE None

\* d[key] = value
dict_set(d, key, value) ==
    [k \in DOMAIN d \cup {key} |-> IF k = key THEN value ELSE d[k]]

EmptyDict == [k \in {} |-> None]

RECURSIVE SeqToSet(_)
SeqToSet(s) == IF s = <<>> THEN {} ELSE {Head(s)} \cup SeqToSet(Tail(s))

InSeq(x, s) == \E i \in 1..Len(s) : s[i] = x

-----------------------------------------------------------------------------
(* String helpers: str.strip, str.lower, re.split, "in" *)

IsSpace(c) == c = " "

RECURSIVE lstrip(_)
lstrip(s) == IF s # <<>> /\ IsSpace(Head(s)) THEN lstrip(Tail(s)) ELSE s

RECURSIVE rstrip(_)
rstrip(s) ==
    IF s # <<>> /\ IsSpace(s[Len(s)]) THEN rstrip(SubSeq(s, 1, Len(s) - 1)) ELSE s

strip(s) == rstrip(lstrip(s))

UpperLetters ==
    <<"A", "B", "C", "D", "E", "F", "G", "H", "I", "J", "K", "L", "M",
      "N", "O", "P", "Q", "R", "S", "T", "U", "V", "W", "X", "Y", "Z">>

LowerLetters ==
    <<"a", "b", "c", "d", "e", "f", "g", "h", "i", "j", "k", "l", "m",
      "n", "o", "p", "q", "r", "s", "t", "u", "v", "w", "x", "y", "z">>

lower_char(c) ==
    IF \E i \in 1..Len(UpperLetters) : UpperLetters[i] = c
    THEN LowerLetters[CHOOSE i \in 1..Len(UpperLetters) : UpperLetters[i] = c]
    ELSE c

lower(s) == [i \in 1..Len(s) |-> lower_char(s[i])]

\* sub in s
Contains(s, sub) ==
    \E i \in 0..(Len(s) - Len(sub)) : SubSeq(s, i + 1, i + Len(sub)) = sub

StartsWith(s, prefix) ==
    Len(s) >= Len(prefix) /\ SubSeq(s, 1, Len(prefix)) = prefix

\* the delimiter class of re.split(r"[;,/]+", token)
Delimiters == {";", ",", "/"}

RECURSIVE re_split(_, _, _)
re_split(s, cur, inDelim) ==
    IF s = <<>> THEN <<cur>>
    ELSE IF Head(s) \in Delimiters
         THEN IF inDelim THEN re_split(Tail(s), cur, TRUE)
              ELSE <<cur>> \o re_split(Tail(s), <<>>, TRUE)
         ELSE re_split(Tail(s), Append(cur, Head(s)), FALSE)

-----------------------------------------------------------------------------
(* Settings (config.py) and module constants (main.py lines 72-95) *)

bitrix_category_base_id == 6
bitrix_category_applications_id == 8
bitrix_category_secondary_id == 12
bitrix_stage_base_won == <<"C", "6", ":", "W", "O", "N">>
bitrix_stage_applications_new == <<"C", "8", ":", "N", "E", "W">>
bitrix_stage_secondary_new == <<"C", "1", "2", ":", "N", "E", "W">>
bitrix_show_file_field == "UF_CRM_1764235976815"
bitrix_market_file_field == "UF_CRM_1764236005770"
bitrix_inn_field == "UF_INN"
bitrix_title_field == "TITLE"
bitrix_disk_root_folder_name == "TildaUploads"

KW_SHOW == <<"P", "o", "k", "a", "z">>
KW_MARKET == <<"M", "a", "r", "k", "e", "t">>
KW_SHOWROOM == <<"S", "h", "o", "u", "r", "u", "m">>
participation_keywords == <<KW_SHOW, KW_MARKET, KW_SHOWROOM>>

\* Settings that main.py reads and config.py does not declare; they are
\* deployment configuration: the linesheet target field (main.py 90, 475),
\* the deal company fields (main.py 330) and the contact company fields
\* (main.py 266).
bitrix_linesheet_file_field == "UF_CRM_LINESHEET"
bitrix_company_fields == <<>>
contact_company_fields == <<"UF_COMPANY">>

FORM_IDENTIFIER_KEYS ==
    <<"formname", "formid", "tildaformid", "tilda_form_id", "form_uid",
      "form_id", "lable">>
DEFAULT_PARTICIPATION_FIELD == "format"
KEY_LINESHEET == <<"l", "i", "n", "e", "s", "h", "e", "e", "t">>
DEFAULT_FILE_FIELD_MAP ==
    (KW_SHOW :> bitrix_show_file_field) @@ (KW_MARKET :> bitrix_market_file_field)

FORM_MAIN == <<"t", "i", "l", "d", "a", "_", "f", "o", "r", "m", "_", "m", "a", "i", "n">>
FORM_SECONDARY ==
    <<"t", "i", "l", "d", "a", "_", "f", "o", "r", "m", "_", "s", "e", "c", "o",
      "n", "d", "a", "r", "y">>
FORM_ALIAS_1 == <<"t", "i", "l", "d", "a", "_", "f", "o", "r", "m", "_", "1">>
FORM_ALIAS_2 == <<"t", "i", "l", "d", "a", "_", "f", "o", "r", "m", "_", "2">>
FORM_KEY_ALIASES == (FORM_ALIAS_1 :> FORM_MAIN) @@ (FORM_ALIAS_2 :> FORM_SECONDARY)

TITLE_PREFIX == <<"Z", "a", "y", "a", "v", "k", "a", ":", " ">>
TITLE_DASH == <<" ", "-", " ">>
TITLE_PLACEHOLDER == <<"B", "e", "z", " ", "n", "a", "z", "v", "a", "n", "i", "y", "a">>
CONTACT_PLACEHOLDER == <<"Z", "a", "y", "a", "v", "i", "t", "e", "l">>
UNKNOWN == <<"u", "n", "k", "n", "o", "w", "n">>

-----------------------------------------------------------------------------
(* Submission Normalizer: pure functions of main.py *)

normalize_form_key(name) ==
    IF name \in DOMAIN FORM_KEY_ALIASES THEN FORM_KEY_ALIASES[name] ELSE name

\* Result [ok |-> TRUE, key |-> ...], or [ok |-> FALSE] for the HTTP 400.
RECURSIVE detect_in_keys(_, _)
detect_in_keys(payload, keys) ==
    IF keys = <<>> THEN [ok |-> FALSE]
    ELSE LET value == dict_get(payload, Head(keys)) IN
         IF value.t = "str" /\ strip(value.v) # <<>>
         THEN [ok |-> TRUE, key |-> normalize_form_key(strip(value.v))]
         ELSE detect_in_keys(payload, Tail(keys))

\* Variant: the payload is looked at before the override.
detect_form_key_payload_first(payload, forced) ==
    IF detect_in_keys(payload, FORM_IDENTIFIER_KEYS).ok
    THEN detect_in_keys(payload, FORM_IDENTIFIER_KEYS)
    ELSE IF Truthy(forced) THEN [ok |-> TRUE, key |-> normalize_form_key(forced.v)]
         ELSE [ok |-> FALSE]

detect_form_key(payload, forced) ==
    IF Truthy(forced) THEN [ok |-> TRUE, key |-> normalize_form_key(forced.v)]
    ELSE detect_in_keys(payload, FORM_IDENTIFIER_KEYS)

\* item not in (None, "", [])
KeepItem(item) ==
    /\ item.t # "none"
    /\ ~(item.t = "str" /\ item.v = <<>>)
    /\ ~(item.t = "list" /\ item.v = <<>>)

\* Variant: the entries of a list are filtered but not normalized.
normalize_value_shallow(value) ==
    CASE value.t = "none" -> None
      [] value.t = "str" ->
            IF strip(value.v) # <<>> THEN S(strip(value.v)) ELSE None
      [] value.t = "list" ->
            IF SelectSeq(value.v, KeepItem) # <<>>
            THEN L(SelectSeq(value.v, KeepItem)) ELSE None
      [] OTHER -> value

RECURSIVE normalize_value(_)
normalize_value(value) ==
    CASE value.t = "none" -> None
      [] value.t = "str" ->
            LET stripped == strip(value.v) IN
            IF stripped # <<>> THEN S(stripped) ELSE None
      [] value.t = "list" ->
            LET normalized_list ==
                    [i \in 1..Len(value.v) |-> normalize_value(value.v[i])]
                kept == SelectSeq(normalized_list, KeepItem)
            IN  IF kept # <<>> THEN L(kept) ELSE None
      [] OTHER -> value

\* str(x) of a string
str(value) == value.v

\* the value extract_first returns for one key, None to go on with the
\* next key
first_of(value) ==
    IF value.t = "list"
    THEN IF value.v # <<>> /\ Truthy(normalize_value(value.v[1]))
         THEN S(str(normalize_value(value.v[1])))
         ELSE None
    ELSE IF value.t # "none" THEN S(str(value)) ELSE None

RECURSIVE extract_first(_, _)
first_or_next(found, payload, keys) ==
    IF found.t # "none" THEN found ELSE extract_first(payload, keys)

extract_first(payload, keys) ==
    IF keys = <<>> THEN None
    ELSE first_or_next(first_of(normalize_value(dict_get(payload, Head(keys)))),
                       payload, Tail(keys))

strs(items) == [i \in 1..Len(items) |-> str(items[i])]

\* what extract_list collects for one key
items_of(value) ==
    IF value.t = "list" THEN strs(SelectSeq(value.v, Truthy))
    ELSE IF value.t # "none" THEN <<str(value)>> ELSE <<>>

RECURSIVE extract_list(_, _)
extract_list(payload, keys) ==
    IF keys = <<>> THEN <<>>
    ELSE items_of(normalize_value(dict_get(payload, Head(keys))))
         \o extract_list(payload, Tail(keys))

PhoneChars == {"0", "1", "2", "3", "4", "5", "6", "7", "8", "9", "+"}
PhoneLength == 11

IsPhoneChar(c) == c \in PhoneChars

\* Variant: the plus sign stays.
drop_plus_keep(digits) == digits

\* if digits.startswith("+7"): digits = digits[1:]
drop_plus(digits) ==
    IF StartsWith(digits, <<"+", "7">>) THEN Tail(digits) ELSE digits

\* if digits.startswith("8") and len(digits) == 11: digits = "7" + digits[1:]
eight_to_seven(digits) ==
    IF StartsWith(digits, <<"8">>) /\ Len(digits) = PhoneLength
    THEN <<"7">> \o Tail(digits)
    ELSE digits

normalize_phone(value) ==
    eight_to_seven(drop_plus(SelectSeq(value, IsPhoneChar)))

normalize_phones(items) == [i \in 1..Len(items) |-> normalize_phone(items[i])]

build_search_values(mapping, payload) ==
    [inn     |-> extract_first(payload, mapping.search.inn_keys),
     company |-> extract_first(payload, mapping.search.company_keys),
     phones  |-> normalize_phones(extract_list(payload, mapping.search.phone_keys)),
     emails  |-> extract_list(payload, mapping.search.email_keys)]

\* uploads are records [field, name]
get_uploads_for_field(uploads, field_name) ==
    SelectSeq(uploads, LAMBDA upload : upload.field = field_name)

-----------------------------------------------------------------------------
(* Deal Fan-out Engine: pure functions of main.py *)

\* values.extend(x) for a list x, values.append(x) otherwise
as_items(value) == IF value.t = "list" THEN value.v ELSE <<value>>

\* Variant: a mapped value replaces the value the field has.
RECURSIVE build_deal_fields_overwrite(_, _, _)
build_deal_fields_overwrite(form_payload, mapping, base_fields) ==
    IF mapping = <<>> THEN base_fields
    ELSE build_deal_fields_overwrite(
            form_payload, Tail(mapping),
            IF normalize_value(dict_get(form_payload, Head(mapping).form_field)).t = "none"
            THEN base_fields
            ELSE dict_set(base_fields, Head(mapping).bitrix_field,
                          normalize_value(dict_get(form_payload,
                                                   Head(mapping).form_field))))

\* mapping is the ordered dict mapping.deal_fields: a sequence of
\* [form_field, bitrix_field]
RECURSIVE build_deal_fields(_, _, _)
build_deal_fields(form_payload, mapping, base_fields) ==
    IF mapping = <<>> THEN base_fields
    ELSE LET form_field   == Head(mapping).form_field
             bitrix_field == Head(mapping).bitrix_field
             value    == normalize_value(dict_get(form_payload, form_field))
             existing == dict_get(base_fields, bitrix_field)
             fields ==
                 IF value.t = "none" THEN base_fields
                 ELSE IF existing.t = "none"
                      THEN dict_set(base_fields, bitrix_field, value)
                      ELSE dict_set(base_fields, bitrix_field,
                                    L(as_items(existing) \o as_items(value)))
         IN  build_deal_fields(form_payload, Tail(mapping), fields)

\* Variant: a keyword is appended every time it is found.
RECURSIVE match_keywords_repeat(_, _, _)
match_keywords_repeat(cleaned, keywords, values) ==
    IF keywords = <<>> THEN values
    ELSE match_keywords_repeat(cleaned, Tail(keywords),
                               IF Contains(lower(cleaned), lower(Head(keywords)))
                               THEN Append(values, Head(keywords)) ELSE values)

\* the keywords found in one cleaned part, appended in keyword order
RECURSIVE match_keywords(_, _, _)
match_keywords(cleaned, keywords, values) ==
    IF keywords = <<>> THEN values
    ELSE LET keyword == Head(keywords)
             next ==
                 IF Contains(lower(cleaned), lower(keyword)) /\ ~InSeq(keyword, values)
                 THEN Append(values, keyword)
                 ELSE values
         IN  match_keywords(cleaned, Tail(keywords), next)

RECURSIVE scan_parts(_, _)
scan_parts(parts, values) ==
    IF parts = <<>> THEN values
    ELSE LET cleaned == strip(Head(parts)) IN
         IF cleaned = <<>> THEN scan_parts(Tail(parts), values)
         ELSE scan_parts(Tail(parts),
                         match_keywords(cleaned, participation_keywords, values))

RECURSIVE scan_tokens(_, _)
scan_tokens(tokens, values) ==
    IF tokens = <<>> THEN values
    ELSE scan_tokens(Tail(tokens),
                     scan_parts(re_split(Head(tokens), <<>>, FALSE), values))

\* the tokens of the raw participation value
tokens_of(raw_value) ==
    IF raw_value.t = "list" THEN strs(SelectSeq(raw_value.v, Truthy))
    ELSE IF raw_value.t = "str" THEN <<raw_value.v>> ELSE <<>>

extract_participation_types(form_mapping, payload) ==
    scan_tokens(tokens_of(dict_get(payload,
                                   IF Truthy(form_mapping.participation_field)
                                   THEN form_mapping.participation_field.v
                                   ELSE DEFAULT_PARTICIPATION_FIELD)),
                <<>>)

-----------------------------------------------------------------------------
(* State *)

VARIABLES
    contacts,   \* CRM contacts: ID -> dict of contact fields
    deals,      \* CRM deals: ID -> dict of deal fields
    folders,    \* CRM disk folders: ID -> [NAME, PARENT_ID, TYPE]
    files,      \* CRM disk files: ID -> [NAME, FOLDER_ID]
    client,     \* BitrixClient: [folder_cache, root_folder_id, uploads_parent_id]
    temp_dirs,  \* staging directories that exist under upload_temp_dir
    log,        \* the audit log file: sequence of entries
    req,        \* per request: position and locals of process_tilda_request
    calls,      \* history: the CRM calls issued so far, in order
    mapping_file,   \* the mapping file on disk: [content, mtime]
    mapping_store,  \* MappingStore: [loaded, cache, mtime]
    access,     \* the get_form access in progress and its observations
    settings,   \* [b24_outbound_webhook_url, b24_forward_fields]
    b24,        \* per CRM-event request: position and locals of the handler
    outbound    \* history: the posts made to the outbound URL, in order

vars == <<contacts, deals, folders, files, client, temp_dirs, log, req, calls, mapping_file, mapping_store, access, settings, b24, outbound>>

crm == <<contacts, deals, folders, files>>

mapping_vars == <<mapping_file, mapping_store, access>>

intake_vars == <<settings, b24, outbound>>

-----------------------------------------------------------------------------
(* The CRM as the code observes it (bitrix.py) *)

MaxOf(set) == IF set = {} THEN 0 ELSE CHOOSE x \in set : \A y \in set : y <= x

\* the ids of a set in descending order: "order": {"ID": "DESC"}
RECURSIVE SortDesc(_)
SortDesc(set) ==
    IF set = {} THEN <<>> ELSE <<MaxOf(set)>> \o SortDesc(set \ {MaxOf(set)})

RECURSIVE SortAsc(_)
SortAsc(set) ==
    IF set = {} THEN <<>>
    ELSE LET m == CHOOSE x \in set : \A y \in set : x <= y
         IN  <<m>> \o SortAsc(set \ {m})

Multi(value) == [VALUE |-> value, VALUE_TYPE |-> "WORK"]
MultiList(l) == [t |-> "multi", v |-> l]

\* whether a CRM record matches one filter entry; the multi-value fields
\* PHONE and EMAIL match when one of their values does
MatchesField(record, key, value) ==
    LET have == dict_get(record, key) IN
    IF have.t = "multi"
    THEN value.t = "str" /\ \E i \in 1..Len(have.v) : have.v[i].VALUE = value.v
    ELSE have = value

Matches(record, filter) ==
    \A key \in DOMAIN filter : MatchesField(record, key, filter[key])

\* crm.contact.list: the ids of the matching contacts, highest id first
list_contacts(cs, filter) ==
    SortDesc({id \in DOMAIN cs : Matches(cs[id], filter)})

\* crm.deal.list: the ids of the matching deals, highest id first
list_deals(ds, filter) ==
    SortDesc({id \in DOMAIN ds : Matches(ds[id], filter)})

\* disk.folder.getchildren: the ids of the children of a folder
getchildren(fs, parent_id) ==
    SortAsc({id \in DOMAIN fs : fs[id].PARENT_ID = parent_id})

NewId(table) == MaxOf(DOMAIN table) + 1

\* int(contact.get("COMPANY_ID") or 0) or None, with 0 for None
company_of(contact) ==
    LET value == dict_get(contact, "COMPANY_ID") IN
    IF value.t = "int" THEN value.v ELSE 0

-----------------------------------------------------------------------------
(* The audit log (logger.py) *)

\* One entry of write_log_entry; keys the call leaves out hold None, 0 or
\* the empty dict.  req is the request that wrote the entry.
LogEntry(r, source, payload_raw, mapped_fields, deal_id, action, participation, fsum, error) ==
    [req |-> r, source |-> source, payload_raw |-> payload_raw,
     mapped_fields |-> mapped_fields, deal_id |-> deal_id, action |-> action,
     participation |-> participation, files |-> fsum, error |-> error]

write_log_entry(lg, entry) == Append(lg, entry)

\* One issued CRM call; logged is the length of the audit log when the
\* call was issued.
Call(r, method, args, ok, lg) ==
    [req |-> r, method |-> method, args |-> args, ok |-> ok, logged |-> Len(lg)]

-----------------------------------------------------------------------------
(* Mapping Resolver (mapping.py): the parsed mapping file *)

\* FormMapping.deal_field_for_bitrix / contact_field_for_bitrix
RECURSIVE field_for_bitrix(_, _)
field_for_bitrix(field_map, bitrix_field) ==
    IF field_map = <<>> THEN <<>>
    ELSE (IF Head(field_map).bitrix_field = bitrix_field
          THEN <<Head(field_map).form_field>> ELSE <<>>)
         \o field_for_bitrix(Tail(field_map), bitrix_field)

\* MappingStore._build_search_fields with no "search" configuration
build_search_fields(deal_fields, contact_fields) ==
    [inn_keys     |-> field_for_bitrix(deal_fields, bitrix_inn_field),
     company_keys |-> field_for_bitrix(deal_fields, bitrix_title_field),
     phone_keys   |-> field_for_bitrix(contact_fields, "PHONE"),
     email_keys   |-> field_for_bitrix(contact_fields, "EMAIL")]

FormMapping(name, kind, deal_fields, contact_fields, file_field_map) ==
    [name |-> name, kind |-> kind, deal_fields |-> deal_fields,
     contact_fields |-> contact_fields, participation_field |-> None,
     file_field_map |-> file_field_map,
     search |-> build_search_fields(deal_fields, contact_fields)]

NoMapping == [kind |-> "none"]

FieldPair(form_field, bitrix_field) ==
    [form_field |-> form_field, bitrix_field |-> bitrix_field]

DealFieldMap ==
    <<FieldPair("inn", "UF_INN"), FieldPair("company", "TITLE"),
      FieldPair("comment", "COMMENTS")>>

ContactFieldMap ==
    <<FieldPair("phone", "PHONE"), FieldPair("email", "EMAIL"),
      FieldPair("name", "NAME")>>

FORM_EXPO == <<"e", "x", "p", "o">>
FORM_SHOWS == <<"s", "h", "o", "w", "s">>

(* The mapping file as json.load returns it.  A JSON object is D(members), *)
(* members being the sequence of its [key, value] pairs in file order; a  *)
(* JSON string is S(text), a number I(n), an array L(items), null None.   *)
(* The object of a section holds the section's pairs: FieldPair records   *)
(* for deal_fields and contact_fields, a function from category to field  *)
(* for file_fields; every value inside a section is a string.             *)

Member(key, value) == [key |-> key, value |-> value]

\* dict.get(key): the value of the member, None without it
RECURSIVE raw_get(_, _)
raw_get(members, key) ==
    IF members = <<>> THEN None
    ELSE IF Head(members).key = key THEN Head(members).value
         ELSE raw_get(Tail(members), key)

raw_has(members, key) == \E i \in DOMAIN members : members[i].key = key

\* the truth value Python gives a JSON value
truthy(value) ==
    CASE value.t = "none" -> FALSE
      [] value.t = "str" -> value.v # ""
      [] value.t = "int" -> value.v # 0
      [] value.t \in {"dict", "list"} -> value.v # <<>>

\* a or b or default
first_truthy(a, b, default) ==
    IF truthy(a) THEN a ELSE IF truthy(b) THEN b ELSE default

\* str() of a string or of None
py_str(value) == IF value.t = "none" THEN "None" ELSE value.v

\* a form entry with the four explicit sections
RawForm(kind, deal_fields, contact_fields, file_fields) ==
    D(<<Member("kind", S(kind)), Member("deal_fields", D(deal_fields)),
        Member("contact_fields", D(contact_fields)),
        Member("file_fields", D(file_fields))>>)

\* The mapping file: a primary form with the default file fields, a primary
\* form that configures file fields for the showroom category and the
\* linesheet, a primary form that configures an empty file field for the
\* market category, and a secondary form.
MappingFile ==
    (FORM_MAIN :> RawForm("primary", DealFieldMap, ContactFieldMap, EmptyDict))
    @@ (FORM_SHOWS :> RawForm("primary", DealFieldMap, <<>>, KW_MARKET :> ""))
    @@ (FORM_EXPO :> RawForm("primary", DealFieldMap, <<>>,
                             (KW_SHOWROOM :> "UF_CRM_SHOWROOM")
                             @@ (KEY_LINESHEET :> "UF_CRM_SHEET")))
    @@ (FORM_SECONDARY :> RawForm("secondary", DealFieldMap, ContactFieldMap,
                                  EmptyDict))

\* _parse_form raises ValueError
ConfigError == [kind |-> "error"]

\* every value of the entry is a string (mapping.py 78)
all_strings(members) == \A i \in DOMAIN members : members[i].value.t = "str"

\* MappingStore._parse_form (mapping.py 75-106) for entries without
\* "participation_field" and "search"
parse_form(name, raw) ==
    IF raw.t # "dict" THEN ConfigError
    ELSE IF raw.v # <<>> /\ all_strings(raw.v)
    THEN FormMapping(name, "primary",
                     [i \in DOMAIN raw.v |-> FieldPair(raw.v[i].key, raw.v[i].value.v)],
                     <<>>, EmptyDict)
    ELSE LET deal_fields == first_truthy(raw_get(raw.v, "deal_fields"),
                                         raw_get(raw.v, "fields"), D(<<>>))
             contact_fields == first_truthy(raw_get(raw.v, "contact_fields"),
                                            raw_get(raw.v, "contact"), D(<<>>))
             file_field_map == first_truthy(raw_get(raw.v, "file_fields"),
                                            raw_get(raw.v, "attachments"),
                                            D(EmptyDict))
             kind == IF raw_has(raw.v, "kind") THEN py_str(raw_get(raw.v, "kind"))
                     ELSE "primary"
         IN  IF \/ deal_fields.t # "dict"
                \/ contact_fields.t # "dict"
                \/ file_field_map.t # "dict"
             THEN ConfigError
             ELSE FormMapping(name, kind, deal_fields.v, contact_fields.v,
                              file_field_map.v)

\* the cache MappingStore._load builds from the parsed file (mapping.py 115-117)
parse_forms(data) ==
    [form_name \in DOMAIN data |-> parse_form(form_name, data[form_name])]

\* _parse_form raises for one of the entries, and _load with it
load_fails(data) ==
    \E form_name \in DOMAIN data : parse_form(form_name, data[form_name]) = ConfigError

\* MappingStore after construction: _cache and _mtime are None
Unloaded == [loaded |-> FALSE, cache |-> EmptyDict, mtime |-> 0]

\* Variant: the file is read once and never again.
needs_reload_once(store, current_mtime) == ~store.loaded

\* MappingStore._ensure_loaded: the decision (mapping.py 122-128)
needs_reload(store, current_mtime) ==
    \/ ~store.loaded
    \/ current_mtime > store.mtime

\* MappingStore._load: the two assignments that end it (mapping.py 118-119)
loaded_store(cache, mtime) == [loaded |-> TRUE, cache |-> cache, mtime |-> mtime]

\* Variant: a _load that raises has emptied the cache and taken the time.
load_aborted_cleared(store, file) == loaded_store(EmptyDict, file.mtime)

\* _load raises before its two assignments (mapping.py 110-117)
load_aborted(store, file) == store

\* MappingStore._ensure_loaded while nobody writes the file: the store it
\* leaves, which is the old one when _load raises
ensure_loaded(store, file) ==
    IF needs_reload(store, file.mtime)
    THEN IF load_fails(file.content)
         THEN load_aborted(store, file)
         ELSE loaded_store(parse_forms(file.content), file.mtime)
    ELSE store

\* MappingStore._ensure_loaded raises: it reloads, and _load raises
load_raises(store, file) ==
    needs_reload(store, file.mtime) /\ load_fails(file.content)

\* MappingStore.get_form: self._cache.get(form_key)
get_form(cache, form_key) ==
    IF form_key \in DOMAIN cache THEN cache[form_key] ELSE NoMapping

-----------------------------------------------------------------------------
(* A request: process_tilda_request and what it calls.                     *)
(*                                                                         *)
(* The CRM calls are the suspension points.  A request rests only at a     *)
(* CRM call it is about to issue (CallPcs), before its start ("idle") and  *)
(* after its end ("done").  An action performs the pending call and then   *)
(* runs the code that follows it up to the next call: Run applies the      *)
(* steps of that code one after the other.  A step works on a context      *)
(*   [rq: the request's locals, log: the audit log,                        *)
(*    cl: the BitrixClient, dirs: the staging directories]                 *)
(* and names in rq.pc the step or the call that comes next.                *)
(***************************************************************************)

ROOT_FOLDER == 1

NoContact == [ID |-> 0, COMPANY_ID |-> 0]

NewRequest(r, forced, payload, uploads) ==
    [id |-> r, pc |-> "idle", forced |-> forced, payload |-> payload,
     uploads |-> uploads,
     temp_dir |-> 0, form_key |-> <<>>, mapping |-> NoMapping,
     search |-> [inn |-> None, company |-> None, phones |-> <<>>, emails |-> <<>>],
     caller |-> "", i |-> 0, hit |-> 0, contact |-> NoContact,
     base_deal |-> 0, participation |-> <<>>,
     contact_fields |-> EmptyDict, contact_id |-> 0, company_id |-> 0,
     created_deals |-> <<>>, idx |-> 0, deal_fields |-> EmptyDict, deal_id |-> 0,
     file_summary |-> EmptyDict, phase |-> 0,
     place_uploads |-> <<>>, target_field |-> "", summary_key |-> "",
     fparent |-> 0, fname |-> <<>>, ffor |-> "", folder_id |-> 0, folder |-> 0,
     k |-> 0, file_ids |-> <<>>,
     status |-> 0, body |-> [status |-> "", deal_ids |-> <<>>, deal_id |-> 0]]

Go(c, label) == [c EXCEPT !.rq.pc = label]

\* Variant: the finally clause empties upload_temp_dir.
Exit_rmtree_all(c, status, body) ==
    [c EXCEPT !.rq.pc = "done", !.rq.status = status, !.rq.body = body,
              !.dirs = {}]

\* every way out of process_tilda_request runs the finally clause
Exit(c, status, body) ==
    [c EXCEPT !.rq.pc = "done", !.rq.status = status, !.rq.body = body,
              !.dirs = c.dirs \ {c.rq.temp_dir}]

Body(status, deal_ids, deal_id) ==
    [status |-> status, deal_ids |-> deal_ids, deal_id |-> deal_id]

\* Variant: a form without mapping is rejected and leaves no record.
process_tilda_request_strict(c) ==
    LET temp_dir == MaxOf(c.dirs) + 1
        c1 == [c EXCEPT !.dirs = c.dirs \cup {temp_dir}, !.rq.temp_dir = temp_dir]
        detected == detect_form_key(c.rq.payload, c.rq.forced)
    IN  IF ~detected.ok THEN Exit(c1, 400, Body("error", <<>>, 0))
        ELSE IF load_raises(c.store, c.file)
        THEN Go([c1 EXCEPT !.rq.form_key = detected.key], "unhandled_error")
        ELSE LET form_key == detected.key
                 store == ensure_loaded(c.store, c.file)
                 mapping == get_form(store.cache, form_key)
                 c2 == [c1 EXCEPT !.rq.form_key = form_key, !.rq.mapping = mapping,
                                  !.store = store]
             IN  IF mapping.kind = "none"
                 THEN Exit(c2, 404, Body("error", <<>>, 0))
                 ELSE IF mapping.kind = "secondary"
                      THEN Go(c2, "handle_secondary_form")
                      ELSE Go(c2, "handle_primary_form")

\* process_tilda_request up to the handler (main.py 526-539)
process_tilda_request(c) ==
    LET temp_dir == MaxOf(c.dirs) + 1
        c1 == [c EXCEPT !.dirs = c.dirs \cup {temp_dir}, !.rq.temp_dir = temp_dir]
        detected == detect_form_key(c.rq.payload, c.rq.forced)
    IN  IF ~detected.ok THEN Exit(c1, 400, Body("error", <<>>, 0))
        ELSE IF load_raises(c.store, c.file)
        THEN Go([c1 EXCEPT !.rq.form_key = detected.key], "unhandled_error")
        ELSE LET form_key == detected.key
                 store == ensure_loaded(c.store, c.file)
                 mapping == get_form(store.cache, form_key)
                 c2 == [c1 EXCEPT !.rq.form_key = form_key, !.rq.mapping = mapping,
                                  !.store = store]
                 entry == LogEntry(c.rq.id, form_key, c.rq.payload, EmptyDict, 0,
                                   "mapping_not_found", <<>>, EmptyDict, FALSE)
             IN  IF mapping.kind = "none"
                 THEN Exit([c2 EXCEPT !.log = write_log_entry(c.log, entry)],
                           200, Body("ok", <<>>, 0))
                 ELSE IF mapping.kind = "secondary"
                      THEN Go(c2, "handle_secondary_form")
                      ELSE Go(c2, "handle_primary_form")

\* main.py 426-427
handle_primary_form(c) ==
    Go([c EXCEPT !.rq.search = build_search_values(c.rq.mapping, c.rq.payload)],
       "find_base_deal")

\* Variant: the secondary handler looks for a base deal first.
handle_secondary_form_lookup(c) ==
    Go([c EXCEPT !.rq.search = build_search_values(c.rq.mapping, c.rq.payload)],
       "find_base_deal")

\* main.py 500-501
handle_secondary_form(c) ==
    Go([c EXCEPT !.rq.search = build_search_values(c.rq.mapping, c.rq.payload)],
       "ensure_contact")

(* find_base_deal *)

\* main.py 323-326
find_base_deal(c) ==
    IF Truthy(c.rq.search.inn) THEN Go(c, "list_deals_inn") ELSE Go(c, "fbd_company")

\* settings.bitrix_company_fields or (settings.bitrix_title_field,)
deal_company_fields ==
    IF bitrix_company_fields # <<>> THEN bitrix_company_fields
    ELSE <<bitrix_title_field>>

\* main.py 329-333
fbd_company(c) ==
    IF Truthy(c.rq.search.company)
    THEN Go([c EXCEPT !.rq.i = 1], "list_deals_company")
    ELSE Go(c, "fbd_contact")

\* main.py 336-337
fbd_contact(c) ==
    IF c.rq.search.phones # <<>> \/ c.rq.search.emails # <<>>
       \/ Truthy(c.rq.search.company)
    THEN Go([c EXCEPT !.rq.caller = "base"], "find_existing_contact")
    ELSE Go([c EXCEPT !.rq.base_deal = 0], "find_base_deal_return")

\* main.py 338-343 and 353
fbd_contact_found(c) ==
    IF c.rq.contact.ID # 0
    THEN Go(c, "list_deals_contact")
    ELSE Go([c EXCEPT !.rq.base_deal = 0], "find_base_deal_return")

\* find_base_deal returns to handle_primary_form (main.py 427-429)
find_base_deal_return(c) ==
    IF c.rq.base_deal # 0 THEN Go(c, "update_base_deal") ELSE Go(c, "hp_extract")

(* find_existing_contact *)

\* Variant: the emails are queried before the phones.
find_existing_contact_emails_first(c) ==
    IF c.rq.search.emails # <<>>
    THEN Go([c EXCEPT !.rq.i = 1], "list_contacts_email")
    ELSE IF c.rq.search.phones # <<>>
         THEN Go([c EXCEPT !.rq.i = 1], "list_contacts_phone")
         ELSE Go(c, "fec_company")

\* main.py 243-244
find_existing_contact(c) ==
    IF c.rq.search.phones # <<>>
    THEN Go([c EXCEPT !.rq.i = 1], "list_contacts_phone")
    ELSE Go(c, "fec_emails")

\* main.py 249-250
fec_emails(c) ==
    IF c.rq.search.emails # <<>>
    THEN Go([c EXCEPT !.rq.i = 1], "list_contacts_email")
    ELSE Go(c, "fec_company")

\* main.py 255-259
fec_company(c) ==
    IF Truthy(c.rq.search.company)
    THEN Go(c, "find_contact_by_company")
    ELSE Go([c EXCEPT !.rq.contact = NoContact], "fec_return")

\* main.py 262-267 and 272
find_contact_by_company(c) ==
    LET normalized == strip(c.rq.search.company.v) IN
    IF normalized = <<>> \/ contact_company_fields = <<>>
    THEN Go([c EXCEPT !.rq.contact = NoContact], "fec_return")
    ELSE Go([c EXCEPT !.rq.i = 1], "list_contacts_company")

\* find_existing_contact returns to the function that called it
fec_return(c) ==
    IF c.rq.caller = "base" THEN Go(c, "fbd_contact_found")
    ELSE Go(c, "ensure_contact_found")

(* handle_primary_form before the loop *)

\* Variant: the stage update leaves no audit record.
base_deal_updated_silent(c) == Go(c, "hp_extract")

\* main.py 430-435: the audit record of the stage update
base_deal_updated(c) ==
    LET entry == LogEntry(c.rq.id, c.rq.form_key, c.rq.payload,
                          "base_deal" :> I(c.rq.base_deal), 0, "base_deal_updated",
                          <<>>, EmptyDict, FALSE)
    IN  Go([c EXCEPT !.log = write_log_entry(c.log, entry)], "hp_extract")

\* Variant: an empty extraction is not rejected.
hp_extract_lenient(c) ==
    Go([c EXCEPT !.rq.participation =
                     extract_participation_types(c.rq.mapping, c.rq.payload)],
       "ensure_contact")

\* main.py 436-441
hp_extract(c) ==
    LET participation == extract_participation_types(c.rq.mapping, c.rq.payload)
        entry == LogEntry(c.rq.id, c.rq.form_key, c.rq.payload, EmptyDict, 0,
                          "no_participation", <<>>, EmptyDict, FALSE)
    IN  IF participation = <<>>
        THEN Exit([c EXCEPT !.log = write_log_entry(c.log, entry)],
                  400, Body("error", <<>>, 0))
        ELSE Go([c EXCEPT !.rq.participation = participation], "ensure_contact")

(* ensure_contact *)

\* if normalized: container.append({"VALUE": normalized, "VALUE_TYPE": "WORK"})
multi_item(normalized) ==
    IF normalized # <<>> THEN <<Multi(normalized)>> ELSE <<>>

RECURSIVE phone_items(_)
phone_items(numbers) ==
    IF numbers = <<>> THEN <<>>
    ELSE multi_item(normalize_phone(str(Head(numbers)))) \o phone_items(Tail(numbers))

RECURSIVE email_items(_)
email_items(emails) ==
    IF emails = <<>> THEN <<>>
    ELSE multi_item(strip(str(Head(emails)))) \o email_items(Tail(emails))

\* container.setdefault(key, []) followed by the appends
multi_extend(container, key, items) ==
    LET have == IF key \in DOMAIN container THEN container[key].v ELSE <<>>
    IN  dict_set(container, key, MultiList(have \o items))

assign_contact_field(container, field_name, value) ==
    CASE field_name = "PHONE" ->
            multi_extend(container, "PHONE", phone_items(as_items(value)))
      [] field_name = "EMAIL" ->
            multi_extend(container, "EMAIL", email_items(as_items(value)))
      [] OTHER -> dict_set(container, field_name, value)

\* if value is None: continue
assign_mapped(fields, bitrix_field, value) ==
    IF value.t = "none" THEN fields
    ELSE assign_contact_field(fields, bitrix_field, value)

RECURSIVE build_contact_fields(_, _, _)
build_contact_fields(contact_map, payload, fields) ==
    IF contact_map = <<>> THEN fields
    ELSE build_contact_fields(
             Tail(contact_map), payload,
             assign_mapped(fields, Head(contact_map).bitrix_field,
                           normalize_value(dict_get(payload,
                                                    Head(contact_map).form_field))))

build_contact_payload(mapping, payload) ==
    build_contact_fields(mapping.contact_fields, payload, EmptyDict)

\* if search["phones"] and "PHONE" not in contact_fields (and the same
\* for the emails)
with_search_value(contact_fields, field_name, values) ==
    IF values # <<>> /\ field_name \notin DOMAIN contact_fields
    THEN assign_contact_field(contact_fields, field_name, L(<<S(values[1])>>))
    ELSE contact_fields

\* the contact payload of ensure_contact (main.py 310-314)
contact_payload(rq) ==
    with_search_value(
        with_search_value(build_contact_payload(rq.mapping, rq.payload),
                          "PHONE", rq.search.phones),
        "EMAIL", rq.search.emails)

\* contact_fields.setdefault("NAME", contact_fields.get("UF_NAME", placeholder))
with_name(contact_fields) ==
    IF "NAME" \in DOMAIN contact_fields THEN contact_fields
    ELSE dict_set(contact_fields, "NAME",
                  IF "UF_NAME" \in DOMAIN contact_fields
                  THEN contact_fields["UF_NAME"] ELSE S(CONTACT_PLACEHOLDER))

\* main.py 306
ensure_contact(c) == Go([c EXCEPT !.rq.caller = "ensure"], "find_existing_contact")

\* Variant: the contact is created whatever the payload holds.
new_contact_always(c, contact_fields) ==
    Go([c EXCEPT !.rq.contact_fields = with_name(contact_fields)], "create_contact")

\* main.py 315-318: if not contact_fields: return None, None
new_contact(c, contact_fields) ==
    IF DOMAIN contact_fields = {}
    THEN Go([c EXCEPT !.rq.contact_id = 0, !.rq.company_id = 0],
            "ensure_contact_return")
    ELSE Go([c EXCEPT !.rq.contact_fields = with_name(contact_fields)],
            "create_contact")

\* Variant: the contact that was found is not used.
ensure_contact_found_ignored(c) == new_contact(c, contact_payload(c.rq))

\* ensure_contact after find_existing_contact (main.py 307-314)
ensure_contact_found(c) ==
    IF c.rq.contact.ID # 0
    THEN Go([c EXCEPT !.rq.contact_id = c.rq.contact.ID,
                      !.rq.company_id = c.rq.contact.COMPANY_ID],
            "ensure_contact_return")
    ELSE new_contact(c, contact_payload(c.rq))

company_label(rq) ==
    IF Truthy(rq.search.company) THEN rq.search.company.v
    ELSE IF Truthy(dict_get(rq.payload, "brands_name"))
         THEN dict_get(rq.payload, "brands_name").v
         ELSE TITLE_PLACEHOLDER

\* deal_fields.setdefault("COMPANY_ID", company_id) and
\* deal_fields["CONTACT_ID"] = contact_id
link_deal(deal_fields, contact_id, company_id) ==
    LET with_company ==
            IF company_id # 0 /\ "COMPANY_ID" \notin DOMAIN deal_fields
            THEN dict_set(deal_fields, "COMPANY_ID", I(company_id))
            ELSE deal_fields
    IN  IF contact_id # 0
        THEN dict_set(with_company, "CONTACT_ID", I(contact_id))
        ELSE with_company

\* the deal fields of handle_secondary_form (main.py 502-513)
secondary_deal_fields(rq) ==
    LET base_fields ==
            ("CATEGORY_ID" :> I(bitrix_category_secondary_id))
            @@ ("STAGE_ID" :> S(bitrix_stage_secondary_new))
            @@ ("SOURCE_ID" :> S(rq.form_key))
        merged == build_deal_fields(rq.payload, rq.mapping.deal_fields, base_fields)
        titled == dict_set(merged, bitrix_title_field,
                           S(TITLE_PREFIX \o company_label(rq)))
    IN  link_deal(titled, rq.contact_id, rq.company_id)

\* ensure_contact returns (contact_id, company_id) to the handler: main.py
\* 441-446 or 501-514
ensure_contact_return(c) ==
    IF c.rq.mapping.kind = "secondary"
    THEN Go([c EXCEPT !.rq.deal_fields = secondary_deal_fields(c.rq)],
            "create_secondary_deal")
    ELSE Go([c EXCEPT !.rq.idx = 1, !.rq.created_deals = <<>>], "hp_loop")

(* handle_primary_form: the fan-out loop *)

\* base_fields of one category (main.py 447-451)
primary_base_fields(form_key) ==
    ("CATEGORY_ID" :> I(bitrix_category_applications_id))
    @@ ("STAGE_ID" :> S(bitrix_stage_applications_new))
    @@ ("SOURCE_ID" :> S(form_key))

\* Variant: the base fields are written over the merged record.
primary_deal_fields_fixed(rq, entry) ==
    LET merged == primary_base_fields(rq.form_key)
                  @@ build_deal_fields(rq.payload, rq.mapping.deal_fields, EmptyDict)
        titled == dict_set(merged, bitrix_title_field,
                           S(TITLE_PREFIX \o company_label(rq) \o TITLE_DASH \o entry))
    IN  link_deal(titled, rq.contact_id, rq.company_id)

\* the deal fields of one category (main.py 447-457)
primary_deal_fields(rq, entry) ==
    LET merged == build_deal_fields(rq.payload, rq.mapping.deal_fields,
                                    primary_base_fields(rq.form_key))
        titled == dict_set(merged, bitrix_title_field,
                           S(TITLE_PREFIX \o company_label(rq) \o TITLE_DASH \o entry))
    IN  link_deal(titled, rq.contact_id, rq.company_id)

\* Variant: the base deal is moved to the won stage for every category.
hp_loop_retransition(c) ==
    IF c.rq.idx <= Len(c.rq.participation)
    THEN IF c.rq.idx > 1 /\ c.rq.base_deal # 0
         THEN Go(c, "update_base_deal")
         ELSE Go([c EXCEPT !.rq.deal_fields =
                               primary_deal_fields(c.rq, c.rq.participation[c.rq.idx])],
                 "create_deal")
    ELSE Go(c, "hp_return")

\* for entry in participation: the loop head, up to create_deal
hp_loop(c) ==
    IF c.rq.idx <= Len(c.rq.participation)
    THEN Go([c EXCEPT !.rq.deal_fields =
                          primary_deal_fields(c.rq, c.rq.participation[c.rq.idx])],
            "create_deal")
    ELSE Go(c, "hp_return")

\* main.py 492
hp_return(c) == Exit(c, 200, Body("created", c.rq.created_deals, 0))

\* Variant: the new deal id is put in front of the list.
deal_created_prepend(c) ==
    Go([c EXCEPT !.rq.created_deals = <<c.rq.deal_id>> \o c.rq.created_deals,
                 !.rq.file_summary = EmptyDict, !.rq.phase = 1],
       "hp_phase")

\* main.py 459-460
deal_created(c) ==
    Go([c EXCEPT !.rq.created_deals = Append(c.rq.created_deals, c.rq.deal_id),
                 !.rq.file_summary = EmptyDict, !.rq.phase = 1],
       "hp_phase")

file_fields(mapping) == mapping.file_field_map @@ DEFAULT_FILE_FIELD_MAP

\* "" stands for None
field_get(d, key) == IF key \in DOMAIN d THEN d[key] ELSE ""

LastPhase == 3

\* The three file placements of one category (main.py 461-479): whether
\* the placement is invoked, for which uploads and into which deal field.
Placement(rq, phase) ==
    LET entry == rq.participation[rq.idx]
        fields == file_fields(rq.mapping)
    IN  CASE phase = 1 ->
               [invoked |-> entry = KW_SHOW /\ field_get(fields, entry) # "",
                uploads |-> get_uploads_for_field(rq.uploads, "illustrations_show"),
                target  |-> field_get(fields, entry),
                key     |-> "illustrations_show"]
          [] phase = 2 ->
               [invoked |-> entry \in {KW_MARKET, KW_SHOWROOM},
                uploads |-> get_uploads_for_field(rq.uploads, "illustrations_market"),
                target  |-> field_get(fields, KW_MARKET),
                key     |-> "illustrations_market"]
          [] phase = LastPhase ->
               [invoked |-> TRUE,
                uploads |-> get_uploads_for_field(rq.uploads, "linesheet"),
                target  |-> IF field_get(rq.mapping.file_field_map, KEY_LINESHEET) # ""
                            THEN field_get(rq.mapping.file_field_map, KEY_LINESHEET)
                            ELSE bitrix_linesheet_file_field,
                key     |-> "linesheet"]

\* the placements of the current category from rq.phase on
hp_phase(c) ==
    IF c.rq.phase > LastPhase THEN Go(c, "hp_log_deal")
    ELSE LET p == Placement(c.rq, c.rq.phase) IN
         IF p.invoked
         THEN Go([c EXCEPT !.rq.summary_key = p.key, !.rq.place_uploads = p.uploads,
                           !.rq.target_field = p.target],
                 "upload_files_for_deal")
         ELSE Go([c EXCEPT !.rq.phase = c.rq.phase + 1], "hp_phase")

\* back in handle_primary_form with the ids of one placement: if ids:
\* file_summary[...] = ids
ufd_return(c) ==
    LET summary ==
            IF c.rq.file_ids # <<>>
            THEN dict_set(c.rq.file_summary, c.rq.summary_key, c.rq.file_ids)
            ELSE c.rq.file_summary
    IN  Go([c EXCEPT !.rq.file_summary = summary, !.rq.phase = c.rq.phase + 1],
           "hp_phase")

\* the audit record that ends one category (main.py 480-490), then the
\* next category
hp_log_deal(c) ==
    LET rq == c.rq
        entry == LogEntry(rq.id, rq.form_key, rq.payload, rq.deal_fields, rq.deal_id,
                          "deal_created", rq.participation[rq.idx], rq.file_summary,
                          FALSE)
    IN  Go([c EXCEPT !.log = write_log_entry(c.log, entry), !.rq.idx = rq.idx + 1],
           "hp_loop")

\* main.py 515-522
secondary_deal_created(c) ==
    LET entry == LogEntry(c.rq.id, c.rq.form_key, c.rq.payload, c.rq.deal_fields,
                          c.rq.deal_id, "secondary_deal_created", <<>>, EmptyDict,
                          FALSE)
    IN  Exit([c EXCEPT !.log = write_log_entry(c.log, entry)],
             200, Body("created", <<>>, c.rq.deal_id))

(* upload_files_for_deal and the folder functions of BitrixClient *)

deal_folder_name(deal_id) == <<"deal_", deal_id>>

cache_key(parent_id, name) == <<parent_id, name>>

\* Variant: only the upload list is tested.
upload_files_for_deal_any_target(c) ==
    IF c.rq.place_uploads = <<>>
    THEN Go([c EXCEPT !.rq.file_ids = <<>>], "ufd_return")
    ELSE Go(c, "ensure_uploads_parent")

\* main.py 407-409
upload_files_for_deal(c) ==
    IF c.rq.place_uploads = <<>> \/ c.rq.target_field = ""
    THEN Go([c EXCEPT !.rq.file_ids = <<>>], "ufd_return")
    ELSE Go(c, "ensure_uploads_parent")

\* BitrixClient.ensure_uploads_parent and ensure_storage_root up to the
\* first call; with the parent known, upload_files_for_deal line 410
ensure_uploads_parent(c) ==
    IF c.cl.uploads_parent_id # 0
    THEN Go([c EXCEPT !.rq.fparent = c.cl.uploads_parent_id,
                      !.rq.fname = deal_folder_name(c.rq.deal_id),
                      !.rq.ffor = "deal"], "ensure_folder")
    ELSE IF c.cl.root_folder_id # 0
         THEN Go([c EXCEPT !.rq.fparent = c.cl.root_folder_id,
                           !.rq.fname = <<bitrix_disk_root_folder_name>>,
                           !.rq.ffor = "parent"], "ensure_folder")
         ELSE Go(c, "storage_getforuser")

\* bitrix.py 100-101 and 106-107
storage_root_resolved(c) ==
    Go([c EXCEPT !.cl.root_folder_id = ROOT_FOLDER,
                 !.rq.fparent = ROOT_FOLDER,
                 !.rq.fname = <<bitrix_disk_root_folder_name>>,
                 !.rq.ffor = "parent"], "ensure_folder")

\* Variant: the memo is not consulted.
ensure_folder_unmemoized(c) == Go(c, "getchildren")

\* BitrixClient.ensure_folder up to its first call (bitrix.py 112-115)
ensure_folder(c) ==
    LET key == cache_key(c.rq.fparent, c.rq.fname) IN
    IF key \in DOMAIN c.cl.folder_cache
    THEN Go([c EXCEPT !.rq.folder_id = c.cl.folder_cache[key]], "ensure_folder_return")
    ELSE Go(c, "getchildren")

\* self._folder_cache[cache_key] = folder_id; return folder_id
folder_resolved(c) ==
    LET key == cache_key(c.rq.fparent, c.rq.fname) IN
    Go([c EXCEPT !.cl.folder_cache = (key :> c.rq.folder_id) @@ c.cl.folder_cache],
       "ensure_folder_return")

\* the folder id comes back from ensure_folder: to ensure_uploads_parent
\* (bitrix.py 107-109), which returns it to upload_files_for_deal line
\* 410, or to upload_files_for_deal itself (lines 411-412)
ensure_folder_return(c) ==
    IF c.rq.ffor = "parent"
    THEN Go([c EXCEPT !.cl.uploads_parent_id = c.rq.folder_id,
                      !.rq.fparent = c.rq.folder_id,
                      !.rq.fname = deal_folder_name(c.rq.deal_id),
                      !.rq.ffor = "deal"], "ensure_folder")
    ELSE Go([c EXCEPT !.rq.folder = c.rq.folder_id, !.rq.file_ids = <<>>, !.rq.k = 1],
            "upload_file")

\* Variant: the deal update is issued after the first upload.
file_uploaded_each(c) == Go(c, "update_deal_files")

\* main.py 412-417 after one upload
file_uploaded(c) ==
    IF c.rq.k < Len(c.rq.place_uploads)
    THEN Go([c EXCEPT !.rq.k = c.rq.k + 1], "upload_file")
    ELSE IF c.rq.file_ids # <<>>
         THEN Go(c, "update_deal_files")
         ELSE Go(c, "ufd_return")

(* Failing calls *)

\* Variant: the error of a call inside the loop is caught there and the
\* loop goes on with the next category.
bitrix_error_continue(c) ==
    IF c.rq.mapping.kind = "primary" /\ c.rq.idx \in 1..Len(c.rq.participation)
    THEN Go([c EXCEPT !.rq.idx = c.rq.idx + 1], "hp_loop")
    ELSE Exit(c, 502, Body("error", <<>>, 0))

\* main.py 541-545: except BitrixError
bitrix_error(c) ==
    LET source == IF Truthy(c.rq.forced) THEN c.rq.forced.v ELSE UNKNOWN
        entry == LogEntry(c.rq.id, source, EmptyDict, EmptyDict, 0, "", <<>>,
                          EmptyDict, TRUE)
    IN  Exit([c EXCEPT !.log = write_log_entry(c.log, entry)],
             502, Body("error", <<>>, 0))

\* any other exception leaves through the finally clause only
unhandled_error(c) == Exit(c, 500, Body("error", <<>>, 0))

-----------------------------------------------------------------------------
(* Running the code between two calls *)

CallPcs ==
    {"list_deals_inn", "list_deals_company", "list_deals_contact",
     "list_deals_company_id", "list_contacts_phone", "list_contacts_email",
     "list_contacts_company", "get_contact", "update_base_deal",
     "create_contact", "create_deal", "create_secondary_deal",
     "storage_getforuser", "getchildren", "folder_add", "upload_file",
     "update_deal_files"}

RestPcs == CallPcs \cup {"idle", "done"}

Step(c) ==
    CASE c.rq.pc = "process_tilda_request" -> process_tilda_request(c)
      [] c.rq.pc = "handle_primary_form" -> handle_primary_form(c)
      [] c.rq.pc = "handle_secondary_form" -> handle_secondary_form(c)
      [] c.rq.pc = "find_base_deal" -> find_base_deal(c)
      [] c.rq.pc = "fbd_company" -> fbd_company(c)
      [] c.rq.pc = "fbd_contact" -> fbd_contact(c)
      [] c.rq.pc = "fbd_contact_found" -> fbd_contact_found(c)
      [] c.rq.pc = "find_base_deal_return" -> find_base_deal_return(c)
      [] c.rq.pc = "find_existing_contact" -> find_existing_contact(c)
      [] c.rq.pc = "fec_emails" -> fec_emails(c)
      [] c.rq.pc = "fec_company" -> fec_company(c)
      [] c.rq.pc = "find_contact_by_company" -> find_contact_by_company(c)
      [] c.rq.pc = "fec_return" -> fec_return(c)
      [] c.rq.pc = "base_deal_updated" -> base_deal_updated(c)
      [] c.rq.pc = "hp_extract" -> hp_extract(c)
      [] c.rq.pc = "ensure_contact" -> ensure_contact(c)
      [] c.rq.pc = "ensure_contact_found" -> ensure_contact_found(c)
      [] c.rq.pc = "ensure_contact_return" -> ensure_contact_return(c)
      [] c.rq.pc = "hp_loop" -> hp_loop(c)
      [] c.rq.pc = "hp_return" -> hp_return(c)
      [] c.rq.pc = "deal_created" -> deal_created(c)
      [] c.rq.pc = "hp_phase" -> hp_phase(c)
      [] c.rq.pc = "ufd_return" -> ufd_return(c)
      [] c.rq.pc = "hp_log_deal" -> hp_log_deal(c)
      [] c.rq.pc = "secondary_deal_created" -> secondary_deal_created(c)
      [] c.rq.pc = "upload_files_for_deal" -> upload_files_for_deal(c)
      [] c.rq.pc = "ensure_uploads_parent" -> ensure_uploads_parent(c)
      [] c.rq.pc = "storage_root_resolved" -> storage_root_resolved(c)
      [] c.rq.pc = "ensure_folder" -> ensure_folder(c)
      [] c.rq.pc = "folder_resolved" -> folder_resolved(c)
      [] c.rq.pc = "ensure_folder_return" -> ensure_folder_return(c)
      [] c.rq.pc = "file_uploaded" -> file_uploaded(c)
      [] c.rq.pc = "bitrix_error" -> bitrix_error(c)
      [] c.rq.pc = "unhandled_error" -> unhandled_error(c)

RECURSIVE Run(_)
Run(c) == IF c.rq.pc \in RestPcs THEN c ELSE Run(Step(c))

-----------------------------------------------------------------------------
(* The CRM calls *)

Args(id, filter, fields, name) ==
    [id |-> id, filter |-> filter, fields |-> fields, name |-> name]

\* Variant: the deal queries carry no category.
no_category_filter == EmptyDict

\* base_filter = {"CATEGORY_ID": settings.bitrix_category_base_id}
base_filter == "CATEGORY_ID" :> I(bitrix_category_base_id)

\* the call a request is about to issue
PendingCall(rq) ==
    CASE rq.pc = "list_deals_inn" ->
            [method |-> "crm.deal.list",
             args |-> Args(0, (bitrix_inn_field :> rq.search.inn) @@ base_filter,
                           EmptyDict, <<>>)]
      [] rq.pc = "list_deals_company" ->
            [method |-> "crm.deal.list",
             args |-> Args(0, (deal_company_fields[rq.i] :> rq.search.company)
                              @@ base_filter, EmptyDict, <<>>)]
      [] rq.pc = "list_deals_contact" ->
            [method |-> "crm.deal.list",
             args |-> Args(0, ("CATEGORY_ID" :> I(bitrix_category_base_id))
                              @@ ("CONTACT_ID" :> I(rq.contact.ID)),
                           EmptyDict, <<>>)]
      [] rq.pc = "list_deals_company_id" ->
            [method |-> "crm.deal.list",
             args |-> Args(0, ("CATEGORY_ID" :> I(bitrix_category_base_id))
                              @@ ("COMPANY_ID" :> I(rq.contact.COMPANY_ID)),
                           EmptyDict, <<>>)]
      [] rq.pc = "list_contacts_phone" ->
            [method |-> "crm.contact.list",
             args |-> Args(0, "PHONE" :> S(rq.search.phones[rq.i]), EmptyDict, <<>>)]
      [] rq.pc = "list_contacts_email" ->
            [method |-> "crm.contact.list",
             args |-> Args(0, "EMAIL" :> S(rq.search.emails[rq.i]), EmptyDict, <<>>)]
      [] rq.pc = "list_contacts_company" ->
            [method |-> "crm.contact.list",
             args |-> Args(0, contact_company_fields[rq.i]
                              :> S(strip(rq.search.company.v)), EmptyDict, <<>>)]
      [] rq.pc = "get_contact" ->
            [method |-> "crm.contact.get", args |-> Args(rq.hit, EmptyDict, EmptyDict, <<>>)]
      [] rq.pc = "update_base_deal" ->
            [method |-> "crm.deal.update",
             args |-> Args(rq.base_deal, EmptyDict,
                           "STAGE_ID" :> S(bitrix_stage_base_won), <<>>)]
      [] rq.pc = "create_contact" ->
            [method |-> "crm.contact.add",
             args |-> Args(0, EmptyDict, rq.contact_fields, <<>>)]
      [] rq.pc \in {"create_deal", "create_secondary_deal"} ->
            [method |-> "crm.deal.add", args |-> Args(0, EmptyDict, rq.deal_fields, <<>>)]
      [] rq.pc = "storage_getforuser" ->
            [method |-> "disk.storage.getforuser",
             args |-> Args(0, EmptyDict, EmptyDict, <<>>)]
      [] rq.pc = "getchildren" ->
            [method |-> "disk.folder.getchildren",
             args |-> Args(rq.fparent, EmptyDict, EmptyDict, <<>>)]
      [] rq.pc = "folder_add" ->
            [method |-> "disk.folder.add",
             args |-> Args(rq.fparent, EmptyDict, EmptyDict, rq.fname)]
      [] rq.pc = "upload_file" ->
            [method |-> "disk.folder.uploadfile",
             args |-> Args(rq.folder, EmptyDict, EmptyDict, rq.place_uploads[rq.k].name)]
      [] rq.pc = "update_deal_files" ->
            [method |-> "crm.deal.update",
             args |-> Args(rq.deal_id, EmptyDict, rq.target_field :> L(rq.file_ids), <<>>)]

Ctx(r) ==
    [rq |-> req[r], log |-> log, cl |-> client, dirs |-> temp_dirs,
     store |-> mapping_store, file |-> mapping_file]

\* the request r rests at its next call with the context d
Commit(r, d) ==
    /\ req' = [req EXCEPT ![r] = d.rq]
    /\ log' = d.log
    /\ client' = d.cl
    /\ temp_dirs' = d.dirs
    /\ mapping_store' = d.store
    /\ UNCHANGED <<mapping_file, access, intake_vars>>

\* the request r goes on from the context c at the step label, up to its
\* next call
Resume(r, c, label) == Commit(r, Run(Go(c, label)))

\* BitrixClient._request answers the pending call of r
Issue(r, ok) ==
    calls' = Append(calls, Call(r, PendingCall(req[r]).method,
                                PendingCall(req[r]).args, ok, log))

Receive(r) ==
    /\ req[r].pc = "idle"
    /\ Resume(r, Ctx(r), "process_tilda_request")
    /\ UNCHANGED <<crm, calls>>

(* find_base_deal *)

\* if deals: return deals[0]
first_deal(c, found) == Go([c EXCEPT !.rq.base_deal = found[1]], "find_base_deal_return")

ListDealsByInn(r) ==
    /\ req[r].pc = "list_deals_inn"
    /\ LET found == list_deals(deals, PendingCall(req[r]).args.filter) IN
       IF found # <<>>
       THEN Resume(r, first_deal(Ctx(r), found), "find_base_deal_return")
       ELSE Resume(r, Ctx(r), "fbd_company")
    /\ Issue(r, TRUE)
    /\ UNCHANGED crm

ListDealsByCompany(r) ==
    /\ req[r].pc = "list_deals_company"
    /\ LET found == list_deals(deals, PendingCall(req[r]).args.filter) IN
       IF found # <<>>
       THEN Resume(r, first_deal(Ctx(r), found), "find_base_deal_return")
       ELSE IF req[r].i < Len(deal_company_fields)
            THEN Resume(r, [Ctx(r) EXCEPT !.rq.i = req[r].i + 1], "list_deals_company")
            ELSE Resume(r, Ctx(r), "fbd_contact")
    /\ Issue(r, TRUE)
    /\ UNCHANGED crm

ListDealsByContact(r) ==
    /\ req[r].pc = "list_deals_contact"
    /\ LET found == list_deals(deals, PendingCall(req[r]).args.filter) IN
       IF found # <<>>
       THEN Resume(r, first_deal(Ctx(r), found), "find_base_deal_return")
       ELSE IF req[r].contact.COMPANY_ID # 0
            THEN Resume(r, Ctx(r), "list_deals_company_id")
            ELSE Resume(r, [Ctx(r) EXCEPT !.rq.base_deal = 0], "find_base_deal_return")
    /\ Issue(r, TRUE)
    /\ UNCHANGED crm

ListDealsByCompanyId(r) ==
    /\ req[r].pc = "list_deals_company_id"
    /\ LET found == list_deals(deals, PendingCall(req[r]).args.filter) IN
       IF found # <<>>
       THEN Resume(r, first_deal(Ctx(r), found), "find_base_deal_return")
       ELSE Resume(r, [Ctx(r) EXCEPT !.rq.base_deal = 0], "find_base_deal_return")
    /\ Issue(r, TRUE)
    /\ UNCHANGED crm

(* find_existing_contact *)

\* contact = contacts[0], then get_contact(int(contact["ID"]))
first_contact(c, found) == [c EXCEPT !.rq.hit = found[1]]

ListContactsByPhone(r) ==
    /\ req[r].pc = "list_contacts_phone"
    /\ LET found == list_contacts(contacts, PendingCall(req[r]).args.filter) IN
       IF found # <<>>
       THEN Resume(r, first_contact(Ctx(r), found), "get_contact")
       ELSE IF req[r].i < Len(req[r].search.phones)
            THEN Resume(r, [Ctx(r) EXCEPT !.rq.i = req[r].i + 1], "list_contacts_phone")
            ELSE Resume(r, Ctx(r), "fec_emails")
    /\ Issue(r, TRUE)
    /\ UNCHANGED crm

ListContactsByEmail(r) ==
    /\ req[r].pc = "list_contacts_email"
    /\ LET found == list_contacts(contacts, PendingCall(req[r]).args.filter) IN
       IF found # <<>>
       THEN Resume(r, first_contact(Ctx(r), found), "get_contact")
       ELSE IF req[r].i < Len(req[r].search.emails)
            THEN Resume(r, [Ctx(r) EXCEPT !.rq.i = req[r].i + 1], "list_contacts_email")
            ELSE Resume(r, Ctx(r), "fec_company")
    /\ Issue(r, TRUE)
    /\ UNCHANGED crm

ListContactsByCompany(r) ==
    /\ req[r].pc = "list_contacts_company"
    /\ LET found == list_contacts(contacts, PendingCall(req[r]).args.filter) IN
       IF found # <<>>
       THEN Resume(r, first_contact(Ctx(r), found), "get_contact")
       ELSE IF req[r].i < Len(contact_company_fields)
            THEN Resume(r, [Ctx(r) EXCEPT !.rq.i = req[r].i + 1],
                        "list_contacts_company")
            ELSE Resume(r, [Ctx(r) EXCEPT !.rq.contact = NoContact], "fec_return")
    /\ Issue(r, TRUE)
    /\ UNCHANGED crm

GetContact(r) ==
    /\ req[r].pc = "get_contact"
    /\ req[r].hit \in DOMAIN contacts
    /\ Resume(r, [Ctx(r) EXCEPT !.rq.contact =
                     [ID |-> req[r].hit,
                      COMPANY_ID |-> company_of(contacts[req[r].hit])]],
              "fec_return")
    /\ Issue(r, TRUE)
    /\ UNCHANGED crm

(* handle_primary_form, handle_secondary_form *)

\* crm.deal.update
update_deal(ds, deal_id, fields) ==
    [ds EXCEPT ![deal_id] = fields @@ ds[deal_id]]

UpdateBaseDeal(r) ==
    /\ req[r].pc = "update_base_deal"
    /\ req[r].base_deal \in DOMAIN deals
    /\ deals' = update_deal(deals, req[r].base_deal, PendingCall(req[r]).args.fields)
    /\ Resume(r, Ctx(r), "base_deal_updated")
    /\ Issue(r, TRUE)
    /\ UNCHANGED <<contacts, folders, files>>

CreateContact(r) ==
    /\ req[r].pc = "create_contact"
    /\ LET contact_id == NewId(contacts) IN
       /\ contacts' = (contact_id :> req[r].contact_fields) @@ contacts
       /\ Resume(r, [Ctx(r) EXCEPT !.rq.contact_id = contact_id,
                                   !.rq.company_id = company_of(req[r].contact_fields)],
                 "ensure_contact_return")
    /\ Issue(r, TRUE)
    /\ UNCHANGED <<deals, folders, files>>

CreateDeal(r) ==
    /\ req[r].pc = "create_deal"
    /\ LET deal_id == NewId(deals) IN
       /\ deals' = (deal_id :> req[r].deal_fields) @@ deals
       /\ Resume(r, [Ctx(r) EXCEPT !.rq.deal_id = deal_id], "deal_created")
    /\ Issue(r, TRUE)
    /\ UNCHANGED <<contacts, folders, files>>

CreateSecondaryDeal(r) ==
    /\ req[r].pc = "create_secondary_deal"
    /\ LET deal_id == NewId(deals) IN
       /\ deals' = (deal_id :> req[r].deal_fields) @@ deals
       /\ Resume(r, [Ctx(r) EXCEPT !.rq.deal_id = deal_id], "secondary_deal_created")
    /\ Issue(r, TRUE)
    /\ UNCHANGED <<contacts, folders, files>>

(* upload_files_for_deal and the folder calls of BitrixClient *)

StorageGetForUser(r) ==
    /\ req[r].pc = "storage_getforuser"
    /\ Resume(r, Ctx(r), "storage_root_resolved")
    /\ Issue(r, TRUE)
    /\ UNCHANGED crm

\* bitrix.py 116-120: the first child that is a folder of that name
matching_children(fs, parent_id, name) ==
    SelectSeq(getchildren(fs, parent_id),
              LAMBDA id : fs[id].TYPE = "folder" /\ fs[id].NAME = name)

GetChildren(r) ==
    /\ req[r].pc = "getchildren"
    /\ LET matching == matching_children(folders, req[r].fparent, req[r].fname) IN
       IF matching # <<>>
       THEN Resume(r, [Ctx(r) EXCEPT !.rq.folder_id = matching[1]], "folder_resolved")
       ELSE Resume(r, Ctx(r), "folder_add")
    /\ Issue(r, TRUE)
    /\ UNCHANGED crm

FolderAdd(r) ==
    /\ req[r].pc = "folder_add"
    /\ LET folder_id == NewId(folders) IN
       /\ folders' = (folder_id :> [NAME |-> req[r].fname, PARENT_ID |-> req[r].fparent,
                                    TYPE |-> "folder"]) @@ folders
       /\ Resume(r, [Ctx(r) EXCEPT !.rq.folder_id = folder_id], "folder_resolved")
    /\ Issue(r, TRUE)
    /\ UNCHANGED <<contacts, deals, files>>

\* FIELD records the upload field the file came from
UploadFile(r) ==
    /\ req[r].pc = "upload_file"
    /\ LET file_id == NewId(files) IN
       /\ files' = (file_id :> [NAME |-> req[r].place_uploads[req[r].k].name,
                                FOLDER_ID |-> req[r].folder,
                                FIELD |-> req[r].place_uploads[req[r].k].field])
                   @@ files
       /\ Resume(r, [Ctx(r) EXCEPT !.rq.file_ids = Append(req[r].file_ids, I(file_id))],
                 "file_uploaded")
    /\ Issue(r, TRUE)
    /\ UNCHANGED <<contacts, deals, folders>>

UpdateDealFiles(r) ==
    /\ req[r].pc = "update_deal_files"
    /\ req[r].deal_id \in DOMAIN deals
    /\ deals' = update_deal(deals, req[r].deal_id, PendingCall(req[r]).args.fields)
    /\ Resume(r, Ctx(r), "ufd_return")
    /\ Issue(r, TRUE)
    /\ UNCHANGED <<contacts, folders, files>>

(* BitrixClient._request raises *)

\* the response body holds an "error" key (bitrix.py 44-45, 98-99)
BitrixErrorRaised(r) ==
    /\ req[r].pc \in CallPcs
    /\ Resume(r, Ctx(r), "bitrix_error")
    /\ Issue(r, FALSE)
    /\ UNCHANGED crm

\* response.raise_for_status() or the transport raises (bitrix.py 39-42)
HttpErrorRaised(r) ==
    /\ req[r].pc \in CallPcs
    /\ Resume(r, Ctx(r), "unhandled_error")
    /\ Issue(r, FALSE)
    /\ UNCHANGED crm

-----------------------------------------------------------------------------
(* Initial states: the CRM before the submission, and the submission *)

MaxFiles == 2

INN_A == <<"7", "7", "0", "1">>
COMPANY_A == <<"A", "c", "m", "e">>
COMPANY_A_RAW == <<" ", "A", "c", "m", "e", " ">>
EMAIL_A == <<"a", "@", "x">>
EMAIL_B == <<"b", "@", "x">>
PH_PLUS7 ==
    <<"+", "7", " ", "(", "9", "0", "0", ")", " ", "1", "2", "3", "-", "4", "5",
      "-", "6", "7">>
PH_EIGHT == <<"8", "9", "0", "0", "1", "2", "3", "4", "5", "6", "7">>
PH_CANON == <<"7", "9", "0", "0", "1", "2", "3", "4", "5", "6", "7">>
PH_OTHER == <<"+", "7", " ", "9", "0", "0", " ", "7", "6", "5", "-", "4", "3", "-", "2", "1">>
FMT_BOTH == <<"P", "o", "k", "a", "z", "/", "M", "a", "r", "k", "e", "t">>
FMT_DUP ==
    <<"p", "o", "k", "a", "z", ",", " ", "P", "o", "k", "a", "z", ";", " ", "M",
      "A", "R", "K", "E", "T">>
FMT_MS == <<"M", "a", "r", "k", "e", "t", ",", " ", "S", "h", "o", "u", "r", "u", "m">>
FMT_NONE == <<"e", "x", "p", "o">>
FORM_MAIN_RAW ==
    <<" ", "t", "i", "l", "d", "a", "_", "f", "o", "r", "m", "_", "m", "a", "i", "n", " ">>
FORM_UNMAPPED == <<"a", "b", "c">>

\* contacts of the CRM: one per search criterion, and a second contact
\* with the phone of the first
ContactA == "PHONE" :> MultiList(<<Multi(PH_CANON)>>)
ContactB == ("EMAIL" :> MultiList(<<Multi(EMAIL_A)>>)) @@ ("COMPANY_ID" :> I(5))
ContactC == "UF_COMPANY" :> S(COMPANY_A)
ContactD == ("PHONE" :> MultiList(<<Multi(PH_CANON)>>)) @@ ("COMPANY_ID" :> I(5))

NoRecords == [id \in {} |-> EmptyDict]

ContactWorlds ==
    {NoRecords,
     (1 :> ContactA) @@ (2 :> ContactB) @@ (3 :> ContactC),
     (1 :> ContactA) @@ (2 :> ContactB) @@ (3 :> ContactC) @@ (4 :> ContactD)}

BaseDeal(fields) ==
    fields @@ ("CATEGORY_ID" :> I(bitrix_category_base_id))
           @@ ("STAGE_ID" :> S(<<"C", "6", ":", "N", "E", "W">>))

\* deals of the CRM: a base deal per criterion of find_base_deal, and a
\* deal of the applications category that matches every criterion
DealByInn == BaseDeal(bitrix_inn_field :> S(INN_A))
DealByTitle == BaseDeal(bitrix_title_field :> S(COMPANY_A))
DealByContact == BaseDeal("CONTACT_ID" :> I(1))
DealByCompanyId == BaseDeal("COMPANY_ID" :> I(5))
DealOtherCategory ==
    (bitrix_inn_field :> S(INN_A)) @@ (bitrix_title_field :> S(COMPANY_A))
    @@ ("CONTACT_ID" :> I(1)) @@ ("COMPANY_ID" :> I(5))
    @@ ("CATEGORY_ID" :> I(bitrix_category_applications_id))
    @@ ("STAGE_ID" :> S(bitrix_stage_applications_new))

DealWorlds ==
    {NoRecords,
     (9 :> DealOtherCategory),
     (1 :> DealByInn) @@ (9 :> DealOtherCategory),
     (2 :> DealByTitle) @@ (9 :> DealOtherCategory),
     (3 :> DealByContact) @@ (9 :> DealOtherCategory),
     (4 :> DealByCompanyId) @@ (9 :> DealOtherCategory),
     (1 :> DealByInn) @@ (2 :> DealByTitle) @@ (3 :> DealByContact)
        @@ (4 :> DealByCompanyId) @@ (5 :> DealByInn) @@ (9 :> DealOtherCategory)}

RootOnly == ROOT_FOLDER :> [NAME |-> <<"root">>, PARENT_ID |-> 0, TYPE |-> "folder"]

\* the disk before the first upload: the root alone, the root with the
\* uploads folder, the root with a file that bears the folder's name
FolderWorlds ==
    {RootOnly,
     (2 :> [NAME |-> <<bitrix_disk_root_folder_name>>, PARENT_ID |-> ROOT_FOLDER,
            TYPE |-> "folder"]) @@ RootOnly,
     (2 :> [NAME |-> <<bitrix_disk_root_folder_name>>, PARENT_ID |-> ROOT_FOLDER,
            TYPE |-> "file"]) @@ RootOnly}

Opt(key, value) == IF value.t = "none" THEN EmptyDict ELSE key :> value

FilesOf(field, n) == [i \in 1..n |-> [field |-> field, name |-> <<field, i>>]]

UploadSets ==
    {FilesOf("illustrations_show", ns) \o FilesOf("linesheet", nl)
        \o FilesOf("illustrations_market", nm) :
        ns \in 0..MaxFiles, nm \in 0..MaxFiles, nl \in 0..1}

\* the requests in flight
Requests == {1}

\* a get_form access: its position, its locals, what the previous access
\* returned, whether this one has reloaded and from which file, and the
\* file as it was when the previous access ended, when this one began and
\* when this one ended
NoAccess(file) ==
    [pc |-> "idle", form_key |-> <<>>, cache |-> EmptyDict, result |-> NoMapping,
     prior |-> NoMapping, reloaded |-> FALSE, source |-> file,
     before |-> file, began |-> file, ended |-> file]

\* the mapping file as deployed
DeployedFile == [content |-> MappingFile, mtime |-> 1]

\* config.py 10-11: no outbound URL, no field filter
DefaultSettings == [b24_outbound_webhook_url |-> None, b24_forward_fields |-> <<>>]

\* the store is constructed, no CRM event has arrived
InitRest ==
    /\ mapping_file = DeployedFile
    /\ mapping_store = Unloaded
    /\ access = NoAccess(DeployedFile)
    /\ settings = DefaultSettings
    /\ b24 = <<>>
    /\ outbound = <<>>

InitCrm(cw, dw, fw) ==
    /\ contacts = cw
    /\ deals = dw
    /\ folders = fw
    /\ files = NoRecords
    /\ client = [folder_cache |-> [key \in {} |-> 0], root_folder_id |-> 0,
                 uploads_parent_id |-> 0]
    /\ temp_dirs = {}
    /\ log = <<>>
    /\ calls = <<>>

InitWith(forced, payload, uploads, cw, dw, fw) ==
    /\ InitRest
    /\ InitCrm(cw, dw, fw)
    /\ req = [r \in Requests |-> NewRequest(r, forced, payload, uploads)]

\* submissions that vary the search values against every CRM
InitLookup ==
    \E inn \in {None, S(INN_A)}, company \in {None, S(COMPANY_A_RAW)},
       phone \in {None, S(PH_EIGHT), L(<<S(PH_OTHER), S(PH_PLUS7)>>)},
       email \in {None, S(EMAIL_A), L(<<S(EMAIL_B), S(EMAIL_A)>>)},
       cw \in ContactWorlds, dw \in DealWorlds :
        InitWith(None,
                 ("formname" :> S(FORM_MAIN_RAW)) @@ ("format" :> S(FMT_BOTH))
                 @@ Opt("inn", inn) @@ Opt("company", company)
                 @@ Opt("phone", phone) @@ Opt("email", email),
                 FilesOf("illustrations_show", 1), cw, dw, RootOnly)

\* submissions that vary the categories and the uploads
InitFanOut ==
    \E form \in {FORM_MAIN_RAW, FORM_EXPO, FORM_SHOWS},
       format \in {None, S(FMT_BOTH), S(FMT_MS), S(FMT_NONE),
                   L(<<S(FMT_DUP), S(KW_SHOWROOM)>>)},
       uploads \in UploadSets,
       cw \in {NoRecords, (1 :> ContactA)},
       dw \in {NoRecords, (1 :> DealByInn) @@ (9 :> DealOtherCategory)},
       fw \in FolderWorlds :
        InitWith(None,
                 ("formname" :> S(form)) @@ ("inn" :> S(INN_A))
                 @@ ("phone" :> S(PH_EIGHT)) @@ Opt("format", format),
                 uploads, cw, dw, fw)

\* a secondary form, a form without mapping, a submission without form
\* identity, and the form identity given in the path
InitOther ==
    \E forced \in {None, S(FORM_ALIAS_1), S(FORM_ALIAS_2), S(FORM_UNMAPPED)},
       formname \in {None, S(FORM_ALIAS_2), S(FORM_UNMAPPED), S(<<" ">>)},
       cw \in {NoRecords, (1 :> ContactA), (1 :> ContactB)},
       dw \in {NoRecords, (3 :> DealByContact)} :
        InitWith(forced,
                 Opt("formname", formname) @@ ("phone" :> S(PH_PLUS7))
                 @@ ("format" :> S(KW_SHOW)) @@ ("comment" :> S(<<"h", "i">>)),
                 FilesOf("illustrations_show", 1), cw, dw, RootOnly)

Init == InitLookup \/ InitFanOut \/ InitOther

Next ==
    \E r \in Requests :
        \/ Receive(r)
        \/ ListDealsByInn(r)
        \/ ListDealsByCompany(r)
        \/ ListDealsByContact(r)
        \/ ListDealsByCompanyId(r)
        \/ ListContactsByPhone(r)
        \/ ListContactsByEmail(r)
        \/ ListContactsByCompany(r)
        \/ GetContact(r)
        \/ UpdateBaseDeal(r)
        \/ CreateContact(r)
        \/ CreateDeal(r)
        \/ CreateSecondaryDeal(r)
        \/ StorageGetForUser(r)
        \/ GetChildren(r)
        \/ FolderAdd(r)
        \/ UploadFile(r)
        \/ UpdateDealFiles(r)
        \/ BitrixErrorRaised(r)
        \/ HttpErrorRaised(r)

Spec == Init /\ [][Next]_vars

-----------------------------------------------------------------------------
(* extract_participation_types on its own: the raw value of the            *)
(* participation field is drawn from strings and lists of strings built    *)
(* of keywords in several spellings, other words and delimiters.           *)

MaxTokens == 2

FMT_EXAMPLE ==
    <<"P", "o", "k", "a", "z", ",", " ", "P", "o", "k", "a", "z", ",", " ", "M",
      "a", "r", "k", "e", "t">>

Pieces ==
    {KW_SHOW, <<"p", "o", "k", "a", "z">>, <<" ", "M", "A", "R", "K", "E", "T", " ">>,
     KW_SHOWROOM, <<"M", "a", "r", "k", "e", "t", " ", "P", "o", "k", "a", "z">>,
     <<"e", "x", "p", "o">>, <<" ">>}

Separators == {<<",">>, <<";", " ">>, <<"/", ",">>}

\* the strings of n pieces with a separator between two pieces
RECURSIVE Joined(_)
Joined(n) ==
    IF n <= 1 THEN Pieces
    ELSE {p \o s \o q : p \in Joined(n - 1), s \in Separators, q \in Pieces}

ParticipationValues ==
    {None, S(<<>>), S(FMT_EXAMPLE)}
    \cup {S(s) : s \in UNION {Joined(n) : n \in 1..MaxTokens}}
    \cup {L(<<S(a), S(b)>>) : a \in {<<>>, KW_SHOWROOM, <<"m", "a", "r", "k", "e", "t">>},
                               b \in Joined(MaxTokens)}

InitParticipation ==
    \E raw_value \in ParticipationValues :
        InitWith(None, ("formname" :> S(FORM_MAIN)) @@ Opt("format", raw_value),
                 <<>>, NoRecords, NoRecords, RootOnly)

\* participation = extract_participation_types(mapping, payload)
ExtractParticipation(r) ==
    /\ req[r].pc = "idle"
    /\ req' = [req EXCEPT
                  ![r].mapping = get_form(parse_forms(MappingFile), FORM_MAIN),
                  ![r].participation =
                      extract_participation_types(get_form(parse_forms(MappingFile), FORM_MAIN),
                                                  req[r].payload),
                  ![r].pc = "done"]
    /\ UNCHANGED <<crm, client, temp_dirs, log, calls, mapping_vars, intake_vars>>

NextParticipation == \E r \in Requests : ExtractParticipation(r)

SpecParticipation == InitParticipation /\ [][NextParticipation]_vars

-----------------------------------------------------------------------------
(* detect_form_key on its own: the override and the values of three of     *)
(* the candidate keys are drawn from strings with and without blanks,      *)
(* aliases, lists and absent values.                                       *)

FORM_ABC == <<"a", "b", "c">>

FormKeyValues ==
    {None, S(<<>>), S(<<" ", " ">>), S(<<" ">> \o FORM_ABC \o <<" ">>),
     S(<<" ">> \o FORM_ALIAS_2), S(FORM_ALIAS_1), L(<<S(FORM_ABC)>>)}

FormKeyOverrides ==
    {None, S(<<>>), S(FORM_ALIAS_1), S(<<" ">> \o FORM_ABC), S(FORM_MAIN)}

InitFormKey ==
    \E forced \in FormKeyOverrides,
       formname \in FormKeyValues, form_uid \in FormKeyValues,
       lable \in FormKeyValues :
        InitWith(forced,
                 Opt("formname", formname) @@ Opt("form_uid", form_uid)
                 @@ Opt("lable", lable) @@ ("form" :> S(FORM_MAIN)),
                 <<>>, NoRecords, NoRecords, RootOnly)

\* form_key = detect_form_key(payload, forced_form_key); the HTTPException
\* ends the request with status 400 (main.py 160-167, 530)
DetectFormKey(r) ==
    /\ req[r].pc = "idle"
    /\ req' = [req EXCEPT
                  ![r].form_key =
                      IF detect_form_key(req[r].payload, req[r].forced).ok
                      THEN detect_form_key(req[r].payload, req[r].forced).key
                      ELSE <<>>,
                  ![r].status =
                      IF detect_form_key(req[r].payload, req[r].forced).ok
                      THEN 0 ELSE 400,
                  ![r].pc = "done"]
    /\ UNCHANGED <<crm, client, temp_dirs, log, calls, mapping_vars, intake_vars>>

NextFormKey == \E r \in Requests : DetectFormKey(r)

SpecFormKey == InitFormKey /\ [][NextFormKey]_vars

-----------------------------------------------------------------------------
(* normalize_phone on its own: one national number written with several    *)
(* prefixes and separators, and numbers that are no such writing.          *)

PhonePrefixes ==
    {<<"+", "7">>, <<"8">>, <<"7">>, <<>>, <<"+", "8">>, <<"+", "7", "+", "7">>,
     <<"8", "8">>}

PhoneSeparators == {<<>>, <<" ">>, <<"-">>, <<" ", "(">>, <<")", " ">>}

PH_AREA == <<"9", "0", "0">>
PH_LOCAL == <<<<"1", "2", "3">>, <<"4", "5">>, <<"6", "7">>>>

Written(prefix, s1, s2, s3) ==
    prefix \o s1 \o PH_AREA \o s2 \o PH_LOCAL[1] \o s3 \o PH_LOCAL[2] \o s3
    \o PH_LOCAL[3]

PhoneValues ==
    {Written(prefix, s1, s2, s3) :
        prefix \in PhonePrefixes, s1 \in PhoneSeparators, s2 \in PhoneSeparators,
        s3 \in PhoneSeparators}
    \cup {prefix \o s1 \o PH_AREA : prefix \in PhonePrefixes, s1 \in PhoneSeparators}

InitPhone ==
    \E value \in PhoneValues :
        InitWith(None, ("formname" :> S(FORM_MAIN)) @@ ("phone" :> S(value)),
                 <<>>, NoRecords, NoRecords, RootOnly)

\* phones = [normalize_phone(item) for item in extract_list(...)]
\* (main.py 233)
NormalizePhone(r) ==
    /\ req[r].pc = "idle"
    /\ req' = [req EXCEPT
                  ![r].search.phones =
                      normalize_phones(extract_list(req[r].payload, <<"phone">>)),
                  ![r].pc = "normalized"]
    /\ UNCHANGED <<crm, client, temp_dirs, log, calls, mapping_vars, intake_vars>>

\* the normalized phones are normalized once more and put behind the first
\* results
NormalizePhoneAgain(r) ==
    /\ req[r].pc = "normalized"
    /\ req' = [req EXCEPT
                  ![r].search.phones = @ \o normalize_phones(@),
                  ![r].pc = "done"]
    /\ UNCHANGED <<crm, client, temp_dirs, log, calls, mapping_vars, intake_vars>>

NextPhone ==
    \E r \in Requests :
        \/ NormalizePhone(r)
        \/ NormalizePhoneAgain(r)

SpecPhone == InitPhone /\ [][NextPhone]_vars

-----------------------------------------------------------------------------
(* normalize_value on its own: strings, lists of strings, lists that hold  *)
(* lists, and values that are neither.                                     *)

MaxItems == 3

RawStrings ==
    {S(<<>>), S(<<" ">>), S(<<"x", " ">>), S(<<" ", "x", " ", "y">>), S(<<"x">>)}

RawEntries ==
    RawStrings
    \cup {None, I(0), L(<<>>), L(<<S(<<" ">>), S(<<>>)>>),
          L(<<S(<<" ", "z">>), None, S(<<"x", " ">>)>>)}

RECURSIVE ListsOf(_, _)
ListsOf(items, n) ==
    IF n = 0 THEN {<<>>}
    ELSE {Append(l, item) : l \in ListsOf(items, n - 1), item \in items}

RawValues ==
    RawEntries \cup {L(l) : l \in UNION {ListsOf(RawEntries, n) : n \in 1..MaxItems}}

InitNormalize ==
    \E value \in RawValues :
        InitWith(None, ("formname" :> S(FORM_MAIN)) @@ Opt("value", value),
                 <<>>, NoRecords, NoRecords, RootOnly)

\* value = normalize_value(form_payload.get(form_field)) (main.py 364)
NormalizeValue(r) ==
    /\ req[r].pc = "idle"
    /\ req' = [req EXCEPT
                  ![r].deal_fields =
                      "value" :> normalize_value(dict_get(req[r].payload, "value")),
                  ![r].pc = "normalized"]
    /\ UNCHANGED <<crm, client, temp_dirs, log, calls, mapping_vars, intake_vars>>

\* the normalized value is normalized once more
NormalizeValueAgain(r) ==
    /\ req[r].pc = "normalized"
    /\ req' = [req EXCEPT
                  ![r].deal_fields =
                      @ @@ ("again" :> normalize_value(dict_get(@, "value"))),
                  ![r].pc = "done"]
    /\ UNCHANGED <<crm, client, temp_dirs, log, calls, mapping_vars, intake_vars>>

NextNormalize ==
    \E r \in Requests :
        \/ NormalizeValue(r)
        \/ NormalizeValueAgain(r)

SpecNormalize == InitNormalize /\ [][NextNormalize]_vars

-----------------------------------------------------------------------------
(* build_deal_fields on its own: the mapping file gives the form three     *)
(* deal fields in one of two orders, each with one of three CRM fields as  *)
(* target or left out; the payload gives each form field a string, a list  *)
(* or nothing.  The base fields are those of the fan-out.                  *)

MergeTargets == {"", "SOURCE_ID", "UF_A", "UF_B"}

MergeOrders == {<<"a", "b", "c">>, <<"c", "b", "a">>}

\* the deal_fields object of the form, in the order of the file
MergePairs(order, target) ==
    SelectSeq([i \in 1..3 |-> FieldPair(order[i], target[order[i]])],
              LAMBDA pair : pair.bitrix_field # "")

MergeValues ==
    {None, S(<<" ">>), S(<<"x", " ">>), L(<<S(<<"y">>), S(<<" ">>)>>),
     L(<<S(<<"p">>), S(<<"q">>)>>)}

InitMerge ==
    \E order \in MergeOrders, target \in [{"a", "b", "c"} -> MergeTargets],
       a \in MergeValues, b \in MergeValues, c \in MergeValues :
        /\ InitCrm(NoRecords, NoRecords, RootOnly)
        /\ req = [r \in Requests |->
                    NewRequest(r, None,
                               ("formname" :> S(FORM_MAIN)) @@ Opt("a", a)
                               @@ Opt("b", b) @@ Opt("c", c),
                               <<>>)]
        /\ mapping_file =
            [content |-> FORM_MAIN :> RawForm("primary", MergePairs(order, target),
                                              <<>>, EmptyDict),
             mtime |-> 1]
        /\ mapping_store = Unloaded
        /\ access = NoAccess(mapping_file)
        /\ settings = DefaultSettings
        /\ b24 = <<>>
        /\ outbound = <<>>

\* deal_fields = build_deal_fields(payload, mapping.deal_fields,
\* base_fields=base_fields) (main.py 452)
BuildDealFields(r) ==
    /\ req[r].pc = "idle"
    /\ req' = [req EXCEPT
                  ![r].form_key = FORM_MAIN,
                  ![r].mapping = get_form(parse_forms(mapping_file.content), FORM_MAIN),
                  ![r].deal_fields =
                      build_deal_fields(
                          req[r].payload,
                          get_form(parse_forms(mapping_file.content), FORM_MAIN).deal_fields,
                          primary_base_fields(FORM_MAIN)),
                  ![r].pc = "done"]
    /\ UNCHANGED <<crm, client, temp_dirs, log, calls, mapping_vars, intake_vars>>

NextMerge == \E r \in Requests : BuildDealFields(r)

SpecMerge == InitMerge /\ [][NextMerge]_vars

-----------------------------------------------------------------------------
(* Two submissions at once: each is an independent task of the event loop, *)
(* and the tasks interleave at the CRM calls.                              *)

Pair == {1, 2}

Submission(forced, payload, uploads) ==
    [forced |-> forced, payload |-> payload, uploads |-> uploads]

\* a primary form with every search value, two categories and an upload
SubmissionFull ==
    Submission(None,
               ("formname" :> S(FORM_MAIN_RAW)) @@ ("format" :> S(FMT_BOTH))
               @@ ("inn" :> S(INN_A)) @@ ("company" :> S(COMPANY_A_RAW))
               @@ ("phone" :> S(PH_EIGHT)) @@ ("email" :> S(EMAIL_A)),
               FilesOf("illustrations_show", 1))

\* a secondary form of a person the CRM does not know
SubmissionSecondary ==
    Submission(S(FORM_ALIAS_2),
               ("email" :> S(EMAIL_B)) @@ ("company" :> S(<<"Z">>))
               @@ ("format" :> S(KW_SHOW)),
               <<>>)

\* a primary form of a person the CRM does not know
SubmissionNew ==
    Submission(None,
               ("formname" :> S(FORM_MAIN)) @@ ("phone" :> S(PH_OTHER))
               @@ ("format" :> S(KW_SHOW)),
               <<>>)

\* a form without mapping, a submission without form identity, and a
\* primary form without participation category
SubmissionUnmapped == Submission(None, "formname" :> S(FORM_UNMAPPED), <<>>)
SubmissionAnonymous == Submission(None, "phone" :> S(PH_OTHER), <<>>)
SubmissionNoCategory ==
    Submission(None, ("formname" :> S(FORM_MAIN)) @@ ("format" :> S(FMT_NONE)), <<>>)

SubmissionPairs ==
    {<<SubmissionFull, SubmissionUnmapped>>,
     <<SubmissionAnonymous, SubmissionFull>>,
     <<SubmissionSecondary, SubmissionSecondary>>,
     <<SubmissionNew, SubmissionNew>>,
     <<SubmissionNoCategory, SubmissionSecondary>>}

InitConcurrent ==
    \E pair \in SubmissionPairs :
        /\ InitRest
        /\ InitCrm((4 :> ContactD), (4 :> DealByCompanyId) @@ (9 :> DealOtherCategory),
                   RootOnly)
        /\ req = [r \in Pair |-> NewRequest(r, pair[r].forced, pair[r].payload,
                                             pair[r].uploads)]

NextConcurrent ==
    \E r \in Pair :
        \/ Receive(r)
        \/ ListDealsByInn(r)
        \/ ListDealsByCompany(r)
        \/ ListDealsByContact(r)
        \/ ListDealsByCompanyId(r)
        \/ ListContactsByPhone(r)
        \/ ListContactsByEmail(r)
        \/ ListContactsByCompany(r)
        \/ GetContact(r)
        \/ UpdateBaseDeal(r)
        \/ CreateContact(r)
        \/ CreateDeal(r)
        \/ CreateSecondaryDeal(r)
        \/ StorageGetForUser(r)
        \/ GetChildren(r)
        \/ FolderAdd(r)
        \/ UploadFile(r)
        \/ UpdateDealFiles(r)
        \/ BitrixErrorRaised(r)
        \/ HttpErrorRaised(r)

SpecConcurrent == InitConcurrent /\ [][NextConcurrent]_vars

-----------------------------------------------------------------------------
(* The mapping store and an editor of the mapping file.  get_form runs     *)
(* without suspension inside the service, but the file belongs to the      *)
(* file system: an editor can replace it between any two of the file       *)
(* operations of get_form (stat, read, stat).  A replacement puts a whole  *)
(* new content in place; the modification time never goes back, and two    *)
(* replacements can fall on the same time stamp.                           *)

MaxMtime == 3

FORM_NEW == <<"n", "e", "w">>

\* the file after an edit: a form has gone, a form has come, a form has
\* changed its kind
MappingEdited ==
    (FORM_MAIN :> RawForm("secondary", DealFieldMap, ContactFieldMap, EmptyDict))
    @@ (FORM_NEW :> RawForm("primary", DealFieldMap, <<>>, KW_SHOW :> "UF_CRM_SHOW"))
    @@ (FORM_SECONDARY :> RawForm("secondary", DealFieldMap, ContactFieldMap,
                                  EmptyDict))

\* the file after another edit: one form has changed its file fields
MappingRetouched ==
    (FORM_MAIN :> RawForm("primary", DealFieldMap, ContactFieldMap,
                          KEY_LINESHEET :> "UF_CRM_SHEET"))
    @@ MappingFile

MappingVersions == {MappingFile, MappingEdited, MappingRetouched}

FormKeys == {FORM_MAIN, FORM_EXPO, FORM_NEW, FORM_UNMAPPED}

InitMapping ==
    /\ InitRest
    /\ InitCrm(NoRecords, NoRecords, RootOnly)
    /\ req = [r \in Requests |-> NewRequest(r, None, EmptyDict, <<>>)]

\* the editor replaces the mapping file, or touches it
WriteMappingFile ==
    \E content \in MappingVersions,
       mtime \in {mapping_file.mtime, mapping_file.mtime + 1} :
        /\ mtime <= MaxMtime
        /\ [content |-> content, mtime |-> mtime] # mapping_file
        /\ mapping_file' = [content |-> content, mtime |-> mtime]
        /\ UNCHANGED <<crm, client, temp_dirs, log, req, calls, mapping_store, access,
                       intake_vars>>

\* get_form starts: _ensure_loaded takes the time of the file and decides
\* (mapping.py 122-128); without reload get_form returns (mapping.py 133-135)
GetForm(form_key) ==
    /\ access.pc \in {"idle", "done"}
    /\ access' =
        IF needs_reload(mapping_store, mapping_file.mtime)
        THEN [access EXCEPT !.pc = "load", !.form_key = form_key,
                            !.prior = access.result,
                            !.reloaded = TRUE, !.before = access.ended,
                            !.began = mapping_file]
        ELSE [access EXCEPT !.pc = "done", !.form_key = form_key,
                            !.prior = access.result,
                            !.result = get_form(mapping_store.cache, form_key),
                            !.reloaded = FALSE, !.before = access.ended,
                            !.began = mapping_file, !.ended = mapping_file]
    /\ UNCHANGED <<crm, client, temp_dirs, log, req, calls, mapping_file,
                   mapping_store, intake_vars>>

\* _load reads the file and builds the new cache (mapping.py 111-117), or
\* raises on an entry it cannot parse: get_form raises with it
LoadRead ==
    /\ access.pc = "load"
    /\ IF load_fails(mapping_file.content)
       THEN /\ access' = [access EXCEPT !.pc = "done", !.result = ConfigError,
                                        !.source = mapping_file,
                                        !.ended = mapping_file]
            /\ mapping_store' = load_aborted(mapping_store, mapping_file)
       ELSE /\ access' = [access EXCEPT !.pc = "record",
                                        !.cache = parse_forms(mapping_file.content),
                                        !.source = mapping_file]
            /\ UNCHANGED mapping_store
    /\ UNCHANGED <<crm, client, temp_dirs, log, req, calls, mapping_file,
                   intake_vars>>

\* _load puts the new cache in place and takes the time of the file
\* (mapping.py 118-119); get_form returns (mapping.py 133-135)
LoadRecord ==
    /\ access.pc = "record"
    /\ mapping_store' = loaded_store(access.cache, mapping_file.mtime)
    /\ access' = [access EXCEPT !.pc = "done",
                                !.result = get_form(access.cache, access.form_key),
                                !.ended = mapping_file]
    /\ UNCHANGED <<crm, client, temp_dirs, log, req, calls, mapping_file,
                   intake_vars>>

NextMapping ==
    \/ WriteMappingFile
    \/ \E form_key \in FormKeys : GetForm(form_key)
    \/ LoadRead
    \/ LoadRecord

SpecMapping == InitMapping /\ [][NextMapping]_vars

-----------------------------------------------------------------------------
(* The mapping store and an editor who also saves files that _load cannot *)
(* parse.                                                                 *)

\* a saved file whose last form entry is a string: the entries before it
\* parse
MappingBroken == (FORM_SHOWS :> S("UF_CRM_SHOW")) @@ MappingEdited @@ MappingFile

\* a saved file in which the deal fields of one form are an array
MappingBrokenSection ==
    (FORM_MAIN :> D(<<Member("kind", S("primary")),
                      Member("deal_fields", L(<<"TITLE">>))>>))
    @@ MappingFile

ReloadVersions == {MappingFile, MappingEdited, MappingBroken, MappingBrokenSection}

ReloadKeys == {FORM_MAIN, FORM_NEW}

\* the editor saves a version that parses or one that does not
WriteAnyMappingFile ==
    \E content \in ReloadVersions,
       mtime \in {mapping_file.mtime, mapping_file.mtime + 1} :
        /\ mtime <= MaxMtime
        /\ [content |-> content, mtime |-> mtime] # mapping_file
        /\ mapping_file' = [content |-> content, mtime |-> mtime]
        /\ UNCHANGED <<crm, client, temp_dirs, log, req, calls, mapping_store, access,
                       intake_vars>>

NextReload ==
    \/ WriteAnyMappingFile
    \/ \E form_key \in ReloadKeys : GetForm(form_key)
    \/ LoadRead
    \/ LoadRecord

SpecReload == InitMapping /\ [][NextReload]_vars

-----------------------------------------------------------------------------
(* CRM-event intake: handle_b24_webhook and the task it leaves behind.     *)
(* The handler returns the response; the server sends it and only then     *)
(* runs the background tasks of the request.                               *)

Hooks == {1, 2}

SOURCE_BITRIX == <<"b", "i", "t", "r", "i", "x">>
OUTBOUND_URL == <<"h", "t", "t", "p", ":", "/", "/", "x">>

NoResponse == [status |-> 0, body |-> ""]
Accepted == [status |-> 200, body |-> "accepted"]

NewHook(h, body) ==
    [id |-> h, pc |-> "idle", body |-> body, payload |-> None, tasks |-> <<>>,
     response |-> NoResponse, sent |-> NoResponse, raised |-> FALSE]

FormItem(key, value) == [key |-> key, value |-> value]

\* parse_form_data for text items (main.py 138-153)
RECURSIVE parse_form_data(_)
parse_form_data(items) ==
    IF items = <<>> THEN EmptyDict
    ELSE LET payload == parse_form_data(SubSeq(items, 1, Len(items) - 1))
             key == items[Len(items)].key
             value == S(items[Len(items)].value)
         IN  IF key \in DOMAIN payload
             THEN IF payload[key].t = "list"
                  THEN [payload EXCEPT ![key] = L(Append(@.v, value))]
                  ELSE [payload EXCEPT ![key] = L(<<@, value>>)]
             ELSE (key :> value) @@ payload

\* _read_body_as_dict (main.py 558-568): the JSON value, or the fields of
\* the form when the body is not JSON
read_body_as_dict(body) ==
    IF body.kind = "json" THEN body.value ELSE D(parse_form_data(body.items))

\* Variant: the event is forwarded but not logged.
handle_b24_webhook_unlogged(w, lg) ==
    [w |-> [w EXCEPT !.pc = "respond", !.payload = read_body_as_dict(w.body),
                     !.tasks = <<read_body_as_dict(w.body)>>,
                     !.response = Accepted],
     log |-> lg]

\* handle_b24_webhook (main.py 571-576)
handle_b24_webhook(w, lg) ==
    [w |-> [w EXCEPT !.pc = "respond", !.payload = read_body_as_dict(w.body),
                     !.tasks = <<read_body_as_dict(w.body)>>,
                     !.response = Accepted],
     log |-> write_log_entry(lg, LogEntry(w.id, SOURCE_BITRIX,
                                          read_body_as_dict(w.body), EmptyDict, 0,
                                          "", <<>>, EmptyDict, FALSE))]

\* forward_to_external: the payload to post (main.py 186-187); a payload
\* that is a list has no get, and the comprehension raises when the list
\* holds one of the field names
forward_payload(payload, fields) ==
    IF fields = <<>> THEN [ok |-> TRUE, json |-> payload]
    ELSE IF payload.t = "dict"
         THEN [ok |-> TRUE,
               json |-> D([field \in SeqToSet(fields) \cap DOMAIN payload.v |->
                             payload.v[field]])]
         ELSE IF \E i \in DOMAIN fields : InSeq(S(<<fields[i]>>), payload.v)
              THEN [ok |-> FALSE]
              ELSE [ok |-> TRUE, json |-> D(EmptyDict)]

Post(h, json, ok) ==
    [hook |-> h, json |-> json, ok |-> ok, logged |-> Len(log),
     responded |-> b24[h].sent]

\* the request arrives and the handler runs to its return
B24Webhook(h) ==
    /\ b24[h].pc = "idle"
    /\ b24' = [b24 EXCEPT ![h] = handle_b24_webhook(b24[h], log).w]
    /\ log' = handle_b24_webhook(b24[h], log).log
    /\ UNCHANGED <<crm, client, temp_dirs, req, calls, mapping_vars, settings, outbound>>

\* the server sends the response of the handler to the caller
B24Respond(h) ==
    /\ b24[h].pc = "respond"
    /\ b24' = [b24 EXCEPT ![h].pc = "task", ![h].sent = b24[h].response]
    /\ UNCHANGED <<crm, client, temp_dirs, log, req, calls, mapping_vars, settings,
                   outbound>>

\* forward_to_external without outbound URL (main.py 184-185)
B24ForwardSkipped(h) ==
    /\ b24[h].pc = "task"
    /\ ~Truthy(settings.b24_outbound_webhook_url)
    /\ b24' = [b24 EXCEPT ![h].pc = "done", ![h].tasks = <<>>]
    /\ UNCHANGED <<crm, client, temp_dirs, log, req, calls, mapping_vars, settings,
                   outbound>>

\* forward_to_external raises before its try (main.py 186-187)
B24ForwardRaised(h) ==
    /\ b24[h].pc = "task"
    /\ Truthy(settings.b24_outbound_webhook_url)
    /\ ~forward_payload(b24[h].tasks[1], settings.b24_forward_fields).ok
    /\ b24' = [b24 EXCEPT ![h].pc = "done", ![h].tasks = <<>>, ![h].raised = TRUE]
    /\ UNCHANGED <<crm, client, temp_dirs, log, req, calls, mapping_vars, settings,
                   outbound>>

\* forward_to_external posts and the outbound URL answers (main.py 188-191)
B24ForwardPosted(h) ==
    /\ b24[h].pc = "task"
    /\ Truthy(settings.b24_outbound_webhook_url)
    /\ forward_payload(b24[h].tasks[1], settings.b24_forward_fields).ok
    /\ outbound' = Append(outbound,
            Post(h, forward_payload(b24[h].tasks[1], settings.b24_forward_fields).json,
                 TRUE))
    /\ b24' = [b24 EXCEPT ![h].pc = "done", ![h].tasks = <<>>]
    /\ UNCHANGED <<crm, client, temp_dirs, log, req, calls, mapping_vars, settings>>

\* forward_to_external posts, the post fails and the failure is swallowed
\* (main.py 188-193)
B24ForwardFailed(h) ==
    /\ b24[h].pc = "task"
    /\ Truthy(settings.b24_outbound_webhook_url)
    /\ forward_payload(b24[h].tasks[1], settings.b24_forward_fields).ok
    /\ outbound' = Append(outbound,
            Post(h, forward_payload(b24[h].tasks[1], settings.b24_forward_fields).json,
                 FALSE))
    /\ b24' = [b24 EXCEPT ![h].pc = "done", ![h].tasks = <<>>]
    /\ UNCHANGED <<crm, client, temp_dirs, log, req, calls, mapping_vars, settings>>

\* bodies of CRM events: JSON objects, JSON arrays, forms with a repeated
\* field, and a body that is neither JSON nor a form
EventBodies ==
    {[kind |-> "json", value |-> D(("a" :> S(<<"x">>)) @@ ("b" :> S(<<"y">>)))],
     [kind |-> "json", value |-> D(EmptyDict)],
     [kind |-> "json", value |-> L(<<S(<<"a">>), S(<<"b">>)>>)],
     [kind |-> "json", value |-> L(<<S(<<"z">>)>>)],
     [kind |-> "form", items |-> <<FormItem("a", <<"x">>), FormItem("c", <<"y">>),
                                   FormItem("a", <<"z">>)>>],
     [kind |-> "form", items |-> <<>>]}

OutboundUrls == {None, S(<<>>), S(OUTBOUND_URL)}

ForwardFields == {<<>>, <<"a">>, <<"c", "a">>}

InitB24 ==
    \E url \in OutboundUrls, fields \in ForwardFields,
       body1 \in EventBodies, body2 \in EventBodies :
        /\ InitCrm(NoRecords, NoRecords, RootOnly)
        /\ req = [r \in Requests |-> NewRequest(r, None, EmptyDict, <<>>)]
        /\ mapping_file = DeployedFile
        /\ mapping_store = Unloaded
        /\ access = NoAccess(DeployedFile)
        /\ settings = [b24_outbound_webhook_url |-> url, b24_forward_fields |-> fields]
        /\ b24 = [h \in Hooks |-> NewHook(h, IF h = 1 THEN body1 ELSE body2)]
        /\ outbound = <<>>

NextB24 ==
    \E h \in Hooks :
        \/ B24Webhook(h)
        \/ B24Respond(h)
        \/ B24ForwardSkipped(h)
        \/ B24ForwardRaised(h)
        \/ B24ForwardPosted(h)
        \/ B24ForwardFailed(h)

SpecB24 == InitB24 /\ [][NextB24]_vars

-----------------------------------------------------------------------------
(* Properties.  They read the history of CRM calls, the audit log and the  *)
(* CRM.                                                                    *)

Finished(r) == req[r].pc = "done"

IsPrimary(r) == req[r].mapping.kind = "primary"

\* the positions in the history of the calls of r to a CRM method
CallsBy(r, method) ==
    {k \in 1..Len(calls) : calls[k].req = r /\ calls[k].method = method}

FailedCalls(r) == {k \in 1..Len(calls) : calls[k].req = r /\ ~calls[k].ok}

\* the positions in the audit log of the records of r with an action
RecordsOf(r, action) ==
    {j \in 1..Len(log) : log[j].req = r /\ log[j].action = action}

\* the calls of the file placement of one deal: the uploads into its
\* folder and the update that writes its file ids
PlacementCalls(r, deal_id) ==
    {k \in 1..Len(calls) :
        /\ calls[k].req = r
        /\ \/ /\ calls[k].method = "disk.folder.uploadfile"
              /\ calls[k].args.id \in DOMAIN folders
              /\ folders[calls[k].args.id].NAME = deal_folder_name(deal_id)
           \/ /\ calls[k].method = "crm.deal.update"
              /\ calls[k].args.id = deal_id}

\* C1: when a primary submission has ended, every deal it created in the
\* CRM has a deal_created audit record that names the deal's category
C1_CreatedDealsAreLogged ==
    \A r \in Requests :
        Finished(r) /\ IsPrimary(r) =>
            \A i \in 1..Len(req[r].created_deals) :
                \E j \in RecordsOf(r, "deal_created") :
                    /\ log[j].deal_id = req[r].created_deals[i]
                    /\ log[j].participation = req[r].participation[i]

\* C2: after a failed deal creation the submission issues no further CRM
\* call (no deal creation, no file placement), and the deals it created
\* before are still in the CRM as they were created
C2_FailedCreateAborts ==
    \A r \in Requests :
        \A k \in CallsBy(r, "crm.deal.add") :
            ~calls[k].ok =>
                /\ \A m \in (k + 1)..Len(calls) : calls[m].req # r
                /\ \A i \in 1..Len(req[r].created_deals) :
                    /\ req[r].created_deals[i] \in DOMAIN deals
                    /\ deals[req[r].created_deals[i]]["CATEGORY_ID"]
                           = I(bitrix_category_applications_id)
                    /\ i <= Cardinality({m \in CallsBy(r, "crm.deal.add") :
                                             calls[m].ok})

\* the deal creation of the second category has failed, the deal of the
\* first category exists
C2_Witness ==
    \E r \in Requests :
        /\ Finished(r) /\ IsPrimary(r)
        /\ Len(req[r].created_deals) = 1
        /\ Len(req[r].participation) = 2
        /\ \E k \in CallsBy(r, "crm.deal.add") : ~calls[k].ok /\ k = Len(calls)
        /\ req[r].created_deals[1] \in DOMAIN deals

\* the i-th successful deal creation of r in the history
CreateCall(r, i) ==
    CHOOSE k \in CallsBy(r, "crm.deal.add") :
        Cardinality({m \in CallsBy(r, "crm.deal.add") : m <= k}) = i

Succeeded(r) ==
    /\ Finished(r) /\ IsPrimary(r)
    /\ req[r].status = 200 /\ req[r].body.status = "created"

\* C3: a primary submission that succeeded has created exactly one deal per
\* extracted category, one after the other in extracted order: the
\* creation for the next category was issued after the file placement and
\* the audit record of the category before; the returned list has the deal
\* ids in category order
C3_SequentialFanOut ==
    \A r \in Requests :
        Succeeded(r) =>
            LET n == Len(req[r].participation) IN
            /\ Cardinality(CallsBy(r, "crm.deal.add")) = n
            /\ Len(req[r].body.deal_ids) = n
            /\ \A i \in 1..n :
                LET deal_id == req[r].body.deal_ids[i] IN
                /\ calls[CreateCall(r, i)].ok
                /\ deal_id \in DOMAIN deals
                /\ calls[CreateCall(r, i)].args.fields[bitrix_title_field]
                       = S(TITLE_PREFIX \o company_label(req[r]) \o TITLE_DASH
                           \o req[r].participation[i])
                /\ deals[deal_id][bitrix_title_field]
                       = calls[CreateCall(r, i)].args.fields[bitrix_title_field]
                /\ \A h \in 1..(i - 1) : req[r].body.deal_ids[h] < deal_id
                /\ \E j \in RecordsOf(r, "deal_created") :
                       /\ log[j].deal_id = deal_id
                       /\ log[j].participation = req[r].participation[i]
                       /\ calls[CreateCall(r, i)].logged < j
                       /\ i < n => j <= calls[CreateCall(r, i + 1)].logged
                /\ \A k \in PlacementCalls(r, deal_id) :
                       /\ CreateCall(r, i) < k
                       /\ i < n => k < CreateCall(r, i + 1)

\* a submission with two categories has succeeded, and files were placed
\* on the deal of the first category
C3_Witness ==
    \E r \in Requests :
        /\ Succeeded(r)
        /\ Len(req[r].participation) = 2
        /\ PlacementCalls(r, req[r].body.deal_ids[1]) # {}

\* the calls of r that move a deal to the won stage
WonUpdates(r) ==
    {k \in CallsBy(r, "crm.deal.update") :
        /\ "STAGE_ID" \in DOMAIN calls[k].args.fields
        /\ calls[k].args.fields["STAGE_ID"] = S(bitrix_stage_base_won)}

\* C4: a submission moves a base deal to the won stage at most once and
\* writes at most one base_deal_updated record, however many deals it
\* creates
C4_TransitionAtMostOnce ==
    \A r \in Requests :
        /\ Cardinality(WonUpdates(r)) <= 1
        /\ Cardinality(RecordsOf(r, "base_deal_updated")) <= 1
        /\ Cardinality(RecordsOf(r, "base_deal_updated"))
               <= Cardinality(WonUpdates(r))

\* the base deal was moved and two deals were created after it
C4_Witness ==
    \E r \in Requests :
        /\ Succeeded(r)
        /\ Len(req[r].body.deal_ids) = 2
        /\ Cardinality(WonUpdates(r)) = 1
        /\ Cardinality(RecordsOf(r, "base_deal_updated")) = 1

\* C5 as stated: whenever find_base_deal has hit in a primary submission
\* that has ended, the deal is in the won stage and there is exactly one
\* base_deal_updated record
C5_HitImpliesTransition ==
    \A r \in Requests :
        Finished(r) /\ IsPrimary(r) /\ req[r].base_deal # 0 =>
            /\ deals[req[r].base_deal]["STAGE_ID"] = S(bitrix_stage_base_won)
            /\ Cardinality(RecordsOf(r, "base_deal_updated")) = 1

\* C5: whenever find_base_deal has hit in a primary submission, the update
\* of that deal to the won stage is the next call; once that call has
\* succeeded, the deal is in the won stage and there is exactly one
\* base_deal_updated record naming it, and both stay whatever happens
\* afterwards (no category extracted, a later call fails); when the update
\* call itself fails, the submission ends without the record
C5_TransitionOnceUpdated ==
    \A r \in Requests :
        IsPrimary(r) /\ req[r].base_deal # 0 =>
            IF req[r].pc = "update_base_deal"
            THEN WonUpdates(r) = {} /\ RecordsOf(r, "base_deal_updated") = {}
            ELSE \E k \in WonUpdates(r) :
                    /\ WonUpdates(r) = {k}
                    /\ calls[k].args.id = req[r].base_deal
                    /\ \A m \in 1..(k - 1) :
                           calls[m].req = r =>
                               calls[m].method \in {"crm.deal.list", "crm.contact.list",
                                                    "crm.contact.get"}
                    /\ IF calls[k].ok
                       THEN /\ deals[req[r].base_deal]["STAGE_ID"]
                                   = S(bitrix_stage_base_won)
                            /\ \E j \in RecordsOf(r, "base_deal_updated") :
                                   /\ RecordsOf(r, "base_deal_updated") = {j}
                                   /\ log[j].mapped_fields
                                          = ("base_deal" :> I(req[r].base_deal))
                                   /\ j = calls[k].logged + 1
                       ELSE /\ RecordsOf(r, "base_deal_updated") = {}
                            /\ Finished(r) /\ req[r].status \in {500, 502}
                            /\ k = Len(calls)

\* the base deal was moved to the won stage, and then a later call of the
\* fan-out failed
C5_Witness ==
    \E r \in Requests :
        /\ Finished(r) /\ IsPrimary(r) /\ req[r].base_deal # 0
        /\ req[r].status = 502
        /\ Len(req[r].created_deals) >= 1
        /\ deals[req[r].base_deal]["STAGE_ID"] = S(bitrix_stage_base_won)
        /\ Cardinality(RecordsOf(r, "base_deal_updated")) = 1

NoCategory(r) ==
    IsPrimary(r) /\ extract_participation_types(req[r].mapping, req[r].payload) = <<>>

\* C6: a primary submission without a participation category issues no
\* contact creation and no deal creation, and unless a CRM call failed
\* before the extraction it ends with status 400 and a no_participation
\* record
C6_NoCategoryCreatesNothing ==
    \A r \in Requests :
        NoCategory(r) =>
            /\ CallsBy(r, "crm.contact.add") = {}
            /\ CallsBy(r, "crm.deal.add") = {}
            /\ req[r].created_deals = <<>>
            /\ Finished(r) /\ FailedCalls(r) = {} =>
                   /\ req[r].status = 400
                   /\ req[r].body.status = "error"
                   /\ Cardinality(RecordsOf(r, "no_participation")) = 1

\* a submission with a phone that no contact has, and without category,
\* was rejected
C6_Witness ==
    \E r \in Requests :
        /\ NoCategory(r) /\ Finished(r)
        /\ req[r].status = 400
        /\ req[r].search.phones # <<>>
        /\ DOMAIN contacts = {}
        /\ CallsBy(r, "crm.contact.list") # {}

\* the audit records of r that are neither deal_created nor
\* base_deal_updated
OtherRecords(r) ==
    {j \in 1..Len(log) :
        log[j].req = r /\ log[j].action \notin {"deal_created", "base_deal_updated"}}

\* C7: after a successful primary submission with two categories that
\* created its contact, the audit log holds exactly one record of the
\* contact creation, exactly two deal_created records, and one
\* base_deal_updated record exactly when a base deal was found
C7_AuditRecordsOfFanOut ==
    \A r \in Requests :
        /\ Succeeded(r)
        /\ Len(req[r].participation) = 2
        /\ \E k \in CallsBy(r, "crm.contact.add") : calls[k].ok
        => /\ Cardinality(OtherRecords(r)) = 1
           /\ Cardinality(RecordsOf(r, "deal_created")) = 2
           /\ Cardinality(RecordsOf(r, "base_deal_updated")) = 1
                  <=> req[r].base_deal # 0

\* the updates of r that write file ids to a deal field
FileUpdates(r) ==
    {k \in CallsBy(r, "crm.deal.update") : "STAGE_ID" \notin DOMAIN calls[k].args.fields}

\* the upload field of a category
OwnUploadField(entry) ==
    IF entry = KW_SHOW THEN "illustrations_show" ELSE "illustrations_market"

\* the target field the mapping configures for a category, "" for none
ConfiguredField(mapping, entry) == field_get(file_fields(mapping), entry)

LinesheetField(mapping) ==
    IF field_get(mapping.file_field_map, KEY_LINESHEET) # ""
    THEN field_get(mapping.file_field_map, KEY_LINESHEET)
    ELSE bitrix_linesheet_file_field

\* C8: every update that writes file ids targets a deal the submission
\* created for a category, carries only ids of files uploaded into that
\* deal's folder, and writes the files of the category's upload field to
\* the target field configured for that category and the linesheet files
\* to the linesheet field
C8_FilesToOwnCategoryField ==
    \A r \in Requests :
        \A k \in FileUpdates(r) :
            \E i \in 1..Len(req[r].created_deals) :
                /\ calls[k].args.id = req[r].created_deals[i]
                /\ \A f \in DOMAIN calls[k].args.fields :
                    \A n \in 1..Len(calls[k].args.fields[f].v) :
                        LET file_id == calls[k].args.fields[f].v[n].v IN
                        /\ file_id \in DOMAIN files
                        /\ folders[files[file_id].FOLDER_ID].NAME
                               = deal_folder_name(calls[k].args.id)
                        /\ \/ /\ files[file_id].FIELD = "linesheet"
                              /\ f = LinesheetField(req[r].mapping)
                           \/ /\ files[file_id].FIELD
                                     = OwnUploadField(req[r].participation[i])
                              /\ f = ConfiguredField(req[r].mapping,
                                                     req[r].participation[i])

\* the contacts of the CRM that have a value in a field; PHONE and EMAIL
\* hold several values
ContactsWith(cs, key, value) ==
    {id \in DOMAIN cs :
        /\ key \in DOMAIN cs[id]
        /\ IF cs[id][key].t = "multi"
           THEN \E n \in 1..Len(cs[id][key].v) : cs[id][key].v[n].VALUE = value
           ELSE cs[id][key] = S(value)}

\* the first value, in list order, that some contact has
FirstMatching(cs, key, values) ==
    IF \E n \in 1..Len(values) : ContactsWith(cs, key, values[n]) # {}
    THEN LET n == CHOOSE n \in 1..Len(values) :
                      /\ ContactsWith(cs, key, values[n]) # {}
                      /\ \A h \in 1..(n - 1) : ContactsWith(cs, key, values[h]) = {}
         IN  MaxOf(ContactsWith(cs, key, values[n]))
    ELSE 0

CompanyValues(search) ==
    IF Truthy(search.company) /\ strip(search.company.v) # <<>>
    THEN <<strip(search.company.v)>> ELSE <<>>

\* the contact that the criteria of find_existing_contact select in
\* strict order: phones, then emails, then the company name; 0 for none
ExpectedContact(search, cs) ==
    IF FirstMatching(cs, "PHONE", search.phones) # 0
    THEN FirstMatching(cs, "PHONE", search.phones)
    ELSE IF FirstMatching(cs, "EMAIL", search.emails) # 0
         THEN FirstMatching(cs, "EMAIL", search.emails)
         ELSE IF CompanyValues(search) = <<>> THEN 0
              ELSE MaxOf(UNION {ContactsWith(cs, contact_company_fields[n],
                                             CompanyValues(search)[1]) :
                                    n \in {n \in 1..Len(contact_company_fields) :
                                              \A h \in 1..(n - 1) :
                                                  ContactsWith(cs, contact_company_fields[h],
                                                               CompanyValues(search)[1]) = {}}})

FindPcs ==
    {"list_contacts_phone", "list_contacts_email", "list_contacts_company",
     "get_contact"}

Failed(rq) == rq.pc = "done" /\ rq.status \in {500, 502}

\* find_existing_contact queries in strict order
C9_Order ==
    \A r \in Requests :
        /\ req[r].pc = "list_contacts_phone" =>
               \A h \in 1..(req[r].i - 1) :
                   ContactsWith(contacts, "PHONE", req[r].search.phones[h]) = {}
        /\ req[r].pc = "list_contacts_email" =>
               /\ FirstMatching(contacts, "PHONE", req[r].search.phones) = 0
               /\ \A h \in 1..(req[r].i - 1) :
                      ContactsWith(contacts, "EMAIL", req[r].search.emails[h]) = {}
        /\ req[r].pc = "list_contacts_company" =>
               /\ FirstMatching(contacts, "PHONE", req[r].search.phones) = 0
               /\ FirstMatching(contacts, "EMAIL", req[r].search.emails) = 0
        /\ req[r].pc = "get_contact" =>
               req[r].hit = ExpectedContact(req[r].search, contacts)

\* find_existing_contact returns the contact its criteria select
C9_Return ==
    \A r \in Requests :
        /\ req[r].pc \in FindPcs
        /\ req'[r].pc \notin FindPcs \/ req'[r].caller # req[r].caller
        /\ ~Failed(req'[r])
        => req'[r].contact.ID = ExpectedContact(req[r].search, contacts)

\* C9: find_existing_contact applies its criteria in strict order and stops
\* at the first that matches: it returns the contact of the first phone, in
\* list order, that a contact has; it queries the emails only when no phone
\* matches, and the company name only when neither a phone nor an email
\* matches
C9_ContactPrecedence == []C9_Order /\ [][C9_Return]_vars

\* a contact was returned for the second phone of the list, while another
\* contact has an email of the submission
C9_Witness ==
    \E r \in Requests :
        /\ req[r].pc \notin FindPcs \cup {"idle", "done"}
        /\ req[r].contact.ID # 0
        /\ Len(req[r].search.phones) = 2
        /\ req[r].contact.ID \in ContactsWith(contacts, "PHONE", req[r].search.phones[2])
        /\ FirstMatching(contacts, "EMAIL", req[r].search.emails)
               \notin {0, req[r].contact.ID}

\* the deals of the base category that have a value in a field
BaseDealsWith(ds, key, value) ==
    {id \in DOMAIN ds :
        /\ dict_get(ds[id], "CATEGORY_ID") = I(bitrix_category_base_id)
        /\ dict_get(ds[id], key) = value}

HasSearchValue(search) ==
    search.phones # <<>> \/ search.emails # <<>> \/ Truthy(search.company)

\* the contact find_base_deal resolves, 0 for none
BaseContact(search, cs) ==
    IF HasSearchValue(search) THEN ExpectedContact(search, cs) ELSE 0

\* the results of the criteria of find_base_deal, in their order
BaseDealResults(search, cs, ds) ==
    <<IF Truthy(search.inn)
      THEN BaseDealsWith(ds, bitrix_inn_field, search.inn) ELSE {}>>
    \o [n \in 1..Len(deal_company_fields) |->
           IF Truthy(search.company)
           THEN BaseDealsWith(ds, deal_company_fields[n], search.company) ELSE {}]
    \o <<IF BaseContact(search, cs) # 0
         THEN BaseDealsWith(ds, "CONTACT_ID", I(BaseContact(search, cs))) ELSE {},
         IF BaseContact(search, cs) # 0
            /\ company_of(cs[BaseContact(search, cs)]) # 0
         THEN BaseDealsWith(ds, "COMPANY_ID",
                            I(company_of(cs[BaseContact(search, cs)])))
         ELSE {}>>

\* the first deal, highest id first, of the first result that is not
\* empty; 0 for none
FirstResult(results) ==
    IF \E n \in 1..Len(results) : results[n] # {}
    THEN MaxOf(results[CHOOSE n \in 1..Len(results) :
                           /\ results[n] # {}
                           /\ \A h \in 1..(n - 1) : results[h] = {}])
    ELSE 0

ExpectedBaseDeal(search, cs, ds) == FirstResult(BaseDealResults(search, cs, ds))

InFindBaseDeal(rq) ==
    \/ rq.pc \in {"list_deals_inn", "list_deals_company", "list_deals_contact",
                  "list_deals_company_id"}
    \/ rq.pc \in FindPcs /\ rq.caller = "base"

\* every deal query carries the base category, and the deal found is of
\* the base category
C10_BaseCategory ==
    \A r \in Requests :
        /\ \A k \in CallsBy(r, "crm.deal.list") :
               /\ "CATEGORY_ID" \in DOMAIN calls[k].args.filter
               /\ calls[k].args.filter["CATEGORY_ID"] = I(bitrix_category_base_id)
        /\ req[r].base_deal # 0 =>
               deals[req[r].base_deal]["CATEGORY_ID"] = I(bitrix_category_base_id)

\* find_base_deal returns the first deal of the first result that is not
\* empty
C10_Return ==
    \A r \in Requests :
        /\ req[r].pc = "idle" \/ InFindBaseDeal(req[r])
        /\ ~InFindBaseDeal(req'[r])
        /\ req'[r].mapping.kind = "primary"
        /\ ~Failed(req'[r])
        => req'[r].base_deal = ExpectedBaseDeal(req'[r].search, contacts, deals)

\* C10: find_base_deal returns only deals of the base category: the first
\* deal of the first result that is not empty among the INN match, the
\* company-name match per configured field, the deals of the resolved
\* contact and the deals of that contact's company; it returns none when
\* all of them are empty
C10_BaseDealPrecedence == []C10_BaseCategory /\ [][C10_Return]_vars

\* the base deal was found by the company of the resolved contact, while a
\* deal of another category matches every criterion
C10_Witness ==
    \E r \in Requests :
        /\ req[r].pc = "update_base_deal"
        /\ "COMPANY_ID" \in DOMAIN calls[Len(calls)].args.filter
        /\ req[r].base_deal # 0
        /\ \E d \in DOMAIN deals :
               /\ d > req[r].base_deal
               /\ deals[d]["CATEGORY_ID"] # I(bitrix_category_base_id)
               /\ dict_get(deals[d], "COMPANY_ID")
                      = I(req[r].contact.COMPANY_ID)

\* the contacts the CRM held before r created one
Created(r) == {k \in CallsBy(r, "crm.contact.add") : calls[k].ok}

ContactsBefore(r) ==
    [id \in {id \in DOMAIN contacts : Created(r) = {} \/ id # req[r].contact_id}
        |-> contacts[id]]

\* no mapped contact field of the submission has a value, and the search
\* values hold neither a phone nor an email
EmptyBuiltPayload(rq) ==
    /\ \A n \in 1..Len(rq.mapping.contact_fields) :
           normalize_value(dict_get(rq.payload,
                                    rq.mapping.contact_fields[n].form_field)) = None
    /\ rq.search.phones = <<>>
    /\ rq.search.emails = <<>>

\* ensure_contact has returned to its handler
EnsureContactReturned(rq) == rq.pc \in {"create_deal", "create_secondary_deal"}

\* C11: a submission issues at most one contact creation, and only when no
\* contact of the CRM matches and the built contact payload is not empty;
\* when a contact matches, ensure_contact returns its id and company and
\* nothing is created; with an empty built payload it returns no contact and
\* no company, and nothing is created
C11_EnsureContact ==
    \A r \in Requests :
        /\ Cardinality(CallsBy(r, "crm.contact.add")) <= 1
        /\ \A k \in CallsBy(r, "crm.contact.add") :
               /\ ExpectedContact(req[r].search, ContactsBefore(r)) = 0
               /\ ~EmptyBuiltPayload(req[r])
               /\ DOMAIN calls[k].args.fields # {}
        /\ EnsureContactReturned(req[r]) =>
               IF ExpectedContact(req[r].search, ContactsBefore(r)) # 0
               THEN /\ req[r].contact_id
                           = ExpectedContact(req[r].search, ContactsBefore(r))
                    /\ req[r].company_id = company_of(contacts[req[r].contact_id])
                    /\ CallsBy(r, "crm.contact.add") = {}
               ELSE IF EmptyBuiltPayload(req[r])
                    THEN /\ req[r].contact_id = 0
                         /\ req[r].company_id = 0
                         /\ CallsBy(r, "crm.contact.add") = {}
                         /\ "CONTACT_ID" \notin DOMAIN req[r].deal_fields
                    ELSE \E k \in Created(r) :
                            /\ req[r].contact_id \in DOMAIN contacts
                            /\ req[r].contact_id \notin DOMAIN ContactsBefore(r)
                            /\ contacts[req[r].contact_id] = calls[k].args.fields
                            /\ req[r].deal_fields["CONTACT_ID"] = I(req[r].contact_id)

\* a contact was created although the CRM holds contacts, none of which
\* matches the submission
C11_Witness ==
    \E r \in Requests :
        /\ EnsureContactReturned(req[r])
        /\ Created(r) # {}
        /\ DOMAIN ContactsBefore(r) # {}
        /\ req[r].contact_id \in DOMAIN contacts

\* the strings of the participation value, in input order
RawItems(raw_value) ==
    IF raw_value.t = "list" THEN [n \in 1..Len(raw_value.v) |-> raw_value.v[n].v]
    ELSE IF raw_value.t = "str" THEN <<raw_value.v>> ELSE <<>>

\* the keyword stands at position i of the string s, in any letter case
OccursAt(keyword, s, i) ==
    /\ i + Len(keyword) - 1 <= Len(s)
    /\ lower(SubSeq(s, i, i + Len(keyword) - 1)) = lower(keyword)

\* the tokens of the input that hold the keyword: a token is named by its
\* string and the number of delimiter characters before it in that string
SeenIn(keyword, items) ==
    {<<n, Cardinality({j \in 1..(i - 1) : items[n][j] \in Delimiters})>> :
        <<n, i>> \in {<<n, i>> \in (1..Len(items))
                                   \X (1..MaxOf({Len(items[n]) : n \in 1..Len(items)})) :
                         OccursAt(keyword, items[n], i)}}

TokenBefore(p, q) == p[1] < q[1] \/ (p[1] = q[1] /\ p[2] <= q[2])

\* the first token that holds keyword a is not after the first that holds b
FirstSeenBefore(a, b, items) ==
    \E p \in SeenIn(a, items) : \A q \in SeenIn(b, items) : TokenBefore(p, q)

\* C12: participation extraction returns a list without duplicates, of
\* keywords of the vocabulary only: exactly the keywords that a token of the
\* input holds in any letter case, in the order of the tokens where they are
\* first seen; "Pokaz, Pokaz, Market" gives Pokaz, Market
C12_ParticipationOrder ==
    \A r \in Requests :
        req[r].pc = "done" /\ req[r].status = 0 =>
            LET out == req[r].participation
                items == RawItems(dict_get(req[r].payload, DEFAULT_PARTICIPATION_FIELD))
            IN  /\ \A a, b \in 1..Len(out) : a # b => out[a] # out[b]
                /\ \A a \in 1..Len(out) : InSeq(out[a], participation_keywords)
                /\ \A n \in 1..Len(participation_keywords) :
                       InSeq(participation_keywords[n], out)
                           <=> SeenIn(participation_keywords[n], items) # {}
                /\ \A a, b \in 1..Len(out) :
                       a < b => FirstSeenBefore(out[a], out[b], items)
                /\ items = <<FMT_EXAMPLE>> => out = <<KW_SHOW, KW_MARKET>>

\* a list value whose second string repeats a keyword of the first and
\* brings one that stands earlier in the vocabulary
C12_Witness ==
    \E r \in Requests :
        /\ req[r].pc = "done" /\ req[r].status = 0
        /\ req[r].participation = <<KW_SHOWROOM, KW_SHOW>>
        /\ dict_get(req[r].payload, DEFAULT_PARTICIPATION_FIELD).t = "list"
        /\ Cardinality(SeenIn(KW_SHOW, RawItems(dict_get(req[r].payload,
                                                         DEFAULT_PARTICIPATION_FIELD)))) > 1

UploadFields == {"illustrations_show", "illustrations_market", "linesheet"}

\* the uploads of r that succeeded, for one deal and one upload field: one
\* place call
PlacementUploads(r, deal_id, field) ==
    {k \in CallsBy(r, "disk.folder.uploadfile") :
        /\ calls[k].ok
        /\ folders[calls[k].args.id].NAME = deal_folder_name(deal_id)
        /\ calls[k].args.name[1] = field}

\* the file that a successful upload call has put into the CRM
FileOf(k) ==
    CHOOSE id \in DOMAIN files :
        files[id].NAME = calls[k].args.name /\ files[id].FOLDER_ID = calls[k].args.id

\* the file ids that an update writes
WrittenIds(k) ==
    UNION {{calls[k].args.fields[f].v[n].v : n \in 1..Len(calls[k].args.fields[f].v)} :
              f \in DOMAIN calls[k].args.fields}

\* the updates of r that write files of one upload field to one deal
PlacementUpdates(r, deal_id, field) ==
    {k \in FileUpdates(r) :
        /\ calls[k].args.id = deal_id
        /\ \E id \in WrittenIds(k) : id \in DOMAIN files /\ files[id].FIELD = field}

\* C13 as stated: when the submission has ended, a place call has issued
\* its one deal update if and only if at least one of its uploads succeeded
C13_UpdateIffOneUpload ==
    \A r \in Requests :
        Finished(r) =>
            \A i \in 1..Len(req[r].created_deals), field \in UploadFields :
                /\ Cardinality(PlacementUpdates(r, req[r].created_deals[i], field)) <= 1
                /\ PlacementUpdates(r, req[r].created_deals[i], field) # {}
                       <=> PlacementUploads(r, req[r].created_deals[i], field) # {}

\* C13: a place call issues at most one deal update, and issues it only
\* after every file of its upload list was uploaded: the update writes to
\* one target field the ids of all the files of the list in upload order.
\* An upload that fails ends the place call and the submission without a
\* deal update, whatever uploads succeeded before it; otherwise the update
\* follows the last upload
C13_OneUpdateAfterAllUploads ==
    \A r \in Requests :
        \A i \in 1..Len(req[r].created_deals), field \in UploadFields :
            LET deal_id == req[r].created_deals[i]
                uploaded == PlacementUploads(r, deal_id, field)
                updates == PlacementUpdates(r, deal_id, field)
                wanted == get_uploads_for_field(req[r].uploads, field)
            IN  /\ Cardinality(updates) <= 1
                /\ \A k \in updates :
                       /\ Cardinality(DOMAIN calls[k].args.fields) = 1
                       /\ \A f \in DOMAIN calls[k].args.fields :
                              LET ids == calls[k].args.fields[f].v IN
                              /\ Len(ids) = Len(wanted) /\ Len(ids) >= 1
                              /\ Cardinality(uploaded) = Len(wanted)
                              /\ \A n \in 1..Len(ids) :
                                     \E u \in uploaded :
                                         /\ u < k
                                         /\ ids[n] = I(FileOf(u))
                                         /\ calls[u].args.name = wanted[n].name
                                         /\ Cardinality({h \in uploaded : h <= u}) = n
                /\ uploaded # {} /\ updates = {} =>
                       IF Finished(r)
                       THEN /\ req[r].status \in {500, 502}
                            /\ ~calls[Len(calls)].ok
                            /\ calls[Len(calls)].method = "disk.folder.uploadfile"
                            /\ Cardinality(uploaded) < Len(wanted)
                       ELSE /\ req[r].pc \in {"upload_file", "update_deal_files"}
                            /\ req[r].deal_id = deal_id

\* the two files of the first deal were uploaded and written with one
\* update; of the two files of the second deal the first was uploaded and
\* the second failed
C13_Witness ==
    \E r \in Requests :
        /\ Finished(r)
        /\ Len(req[r].created_deals) = 2
        /\ \E field \in UploadFields :
               /\ Cardinality(PlacementUploads(r, req[r].created_deals[1], field)) = 2
               /\ PlacementUpdates(r, req[r].created_deals[1], field) # {}
        /\ \E field \in UploadFields :
               /\ Cardinality(PlacementUploads(r, req[r].created_deals[2], field)) = 1
               /\ PlacementUpdates(r, req[r].created_deals[2], field) = {}

PlacementPcs ==
    {"storage_getforuser", "getchildren", "folder_add", "upload_file",
     "update_deal_files"}

DiskCalls(r) ==
    {k \in 1..Len(calls) :
        /\ calls[k].req = r
        /\ calls[k].method \in {"disk.storage.getforuser", "disk.folder.getchildren",
                                "disk.folder.add", "disk.folder.uploadfile"}}

\* the target field of the place call for an upload field, "" for absent
TargetOf(mapping, field) ==
    CASE field = "illustrations_show" -> ConfiguredField(mapping, KW_SHOW)
      [] field = "illustrations_market" -> ConfiguredField(mapping, KW_MARKET)
      [] field = "linesheet" -> LinesheetField(mapping)

\* the place call for an upload field has an empty upload list or an absent
\* target field
NoPlacement(rq, field) ==
    get_uploads_for_field(rq.uploads, field) = <<>> \/ TargetOf(rq.mapping, field) = ""

\* the upload fields that are placed for a category
PlacedFields(entry) == {OwnUploadField(entry), "linesheet"}

\* the BitrixClient holds no folder
NoMemo(cl) ==
    DOMAIN cl.folder_cache = {} /\ cl.root_folder_id = 0 /\ cl.uploads_parent_id = 0

\* C14: a place call with an empty upload list or an absent target field
\* issues no call and leaves the folder memo as it is: a request never
\* rests at a folder, upload or update call of such a place call; no file
\* of its upload field reaches the deal; a deal all of whose place calls
\* are of that kind has no folder, no memo entry and no file update; and a
\* submission all of whose place calls are of that kind issues no storage
\* call at all and leaves the memo empty
C14_EmptyPlacementNoEffect ==
    \A r \in Requests :
        IsPrimary(r) =>
            /\ req[r].pc \in PlacementPcs =>
                   req[r].place_uploads # <<>> /\ req[r].target_field # ""
            /\ \A k \in FileUpdates(r) :
                   "" \notin DOMAIN calls[k].args.fields /\ WrittenIds(k) # {}
            /\ \A i \in 1..Len(req[r].created_deals) :
                   LET deal_id == req[r].created_deals[i]
                       entry == req[r].participation[i]
                   IN  /\ \A field \in UploadFields :
                              NoPlacement(req[r], field) =>
                                  /\ PlacementUploads(r, deal_id, field) = {}
                                  /\ PlacementUpdates(r, deal_id, field) = {}
                                  /\ \A j \in RecordsOf(r, "deal_created") :
                                         log[j].deal_id = deal_id =>
                                             field \notin DOMAIN log[j].files
                       /\ (\A field \in PlacedFields(entry) : NoPlacement(req[r], field)) =>
                              /\ \A f \in DOMAIN folders :
                                     folders[f].NAME # deal_folder_name(deal_id)
                              /\ \A key \in DOMAIN client.folder_cache :
                                     key[2] # deal_folder_name(deal_id)
                              /\ \A k \in FileUpdates(r) : calls[k].args.id # deal_id
            /\ (\A field \in UploadFields : NoPlacement(req[r], field)) =>
                   /\ DiskCalls(r) = {}
                   /\ FileUpdates(r) = {}
                   /\ NoMemo(client)
                   /\ DOMAIN files = {}

\* a submission has succeeded with two deals: files were placed on the
\* first, and the deal of the market category got none, because the market
\* target field is absent although the submission has market files
C14_Witness ==
    \E r \in Requests :
        /\ Succeeded(r)
        /\ Len(req[r].created_deals) = 2
        /\ req[r].participation[2] = KW_MARKET
        /\ get_uploads_for_field(req[r].uploads, "illustrations_market") # <<>>
        /\ TargetOf(req[r].mapping, "illustrations_market") = ""
        /\ NoPlacement(req[r], "linesheet")
        /\ PlacementCalls(r, req[r].created_deals[1]) # {}
        /\ PlacementCalls(r, req[r].created_deals[2]) = {}
        /\ Cardinality(RecordsOf(r, "deal_created")) = 2

\* the error records of r in the audit log
ErrorRecords(r) == {j \in 1..Len(log) : log[j].req = r /\ log[j].error}

\* the record holds what was attempted: the payload of the submission, or
\* the fields of the call that failed
HoldsAttempt(entry, r, k) ==
    \/ entry.payload_raw = req[r].payload
    \/ DOMAIN calls[k].args.fields # {} /\ entry.mapped_fields = calls[k].args.fields
    \/ DOMAIN calls[k].args.filter # {} /\ entry.mapped_fields = calls[k].args.filter

\* C17: when a CRM call of a submission has failed, by an error envelope or
\* by a failing transport status, the submission ends with status 502 and
\* the audit log holds a record, written after the call, with the
\* attempted payload
C17_FailedCallIsGatewayFailure ==
    \A r \in Requests :
        \A k \in FailedCalls(r) :
            Finished(r) =>
                /\ req[r].status = 502
                /\ \E j \in ErrorRecords(r) :
                       j > calls[k].logged /\ HoldsAttempt(log[j], r, k)

\* C17, the status alone: a failed CRM call ends the submission with 502
C17_FailedCallStatus ==
    \A r \in Requests :
        Finished(r) /\ FailedCalls(r) # {} => req[r].status = 502

\* C17, the record alone, for the calls answered with an error envelope:
\* the error record holds the attempted payload
C17_EnvelopeRecord ==
    \A r \in Requests :
        \A k \in FailedCalls(r) :
            Finished(r) /\ req[r].status = 502 =>
                \E j \in ErrorRecords(r) :
                    j > calls[k].logged /\ HoldsAttempt(log[j], r, k)

\* the form identity of the submission has no mapping
Unmapped(rq) ==
    /\ detect_form_key(rq.payload, rq.forced).ok
    /\ detect_form_key(rq.payload, rq.forced).key \notin DOMAIN mapping_file.content

AllCallsBy(r) == {k \in 1..Len(calls) : calls[k].req = r}

AllRecordsOf(r) == {j \in 1..Len(log) : log[j].req = r}

\* C18: a submission whose form identity has no mapping issues no CRM call;
\* it ends with a success response, and the audit log holds exactly one
\* record of it, the mapping_not_found record with the form identity and
\* the payload
C18_UnmappedAccepted ==
    \A r \in Requests :
        Unmapped(req[r]) =>
            /\ AllCallsBy(r) = {}
            /\ req[r].pc \in {"idle", "done"}
            /\ Finished(r) =>
                   /\ req[r].status = 200
                   /\ req[r].body = Body("ok", <<>>, 0)
                   /\ \E j \in RecordsOf(r, "mapping_not_found") :
                          /\ AllRecordsOf(r) = {j}
                          /\ log[j].source = detect_form_key(req[r].payload,
                                                             req[r].forced).key
                          /\ log[j].payload_raw = req[r].payload
                          /\ ~log[j].error
                   /\ req[r].created_deals = <<>>
                   /\ req[r].contact_id = 0

\* a submission that names an unmapped form in its body was accepted,
\* while the CRM holds a contact with the phone of the submission
C18_Witness ==
    \E r \in Requests :
        /\ Unmapped(req[r]) /\ Finished(r)
        /\ req[r].forced = None
        /\ req[r].status = 200
        /\ DOMAIN contacts # {}
        /\ Len(log) = 1

IsSecondary(r) == req[r].mapping.kind = "secondary"

\* the calls that only the primary handler issues: deal queries, deal
\* updates and the storage calls of the file placement
PrimaryOnlyCalls(r) ==
    CallsBy(r, "crm.deal.list") \cup CallsBy(r, "crm.deal.update") \cup DiskCalls(r)

-----------------------------------------------------------------------------
(* Staging directories *)

Running(r) == req[r].pc \notin {"idle", "done"}

\* C15: at every moment the staging directories that exist are exactly
\* those of the requests still running, one per request: a request that
\* has finished, by whatever exit (success, form without mapping,
\* validation failure, upstream failure, any other exception), has left
\* no directory behind, and no running request has lost its directory to
\* another request.
C15_StagingDirectories ==
    /\ temp_dirs = {req[r].temp_dir : r \in {q \in DOMAIN req : Running(q)}}
    /\ \A r1, r2 \in DOMAIN req :
        Running(r1) /\ Running(r2) /\ r1 # r2 => req[r1].temp_dir # req[r2].temp_dir
    /\ \A r \in DOMAIN req :
        Finished(r) => req[r].status \in {200, 400, 500, 502}

\* a request has ended in an upstream failure while another request, that
\* started while the first was running, is still running with its directory
C15_Witness ==
    \E r1, r2 \in DOMAIN req :
        /\ Finished(r1) /\ req[r1].status = 502
        /\ Running(r2)
        /\ req[r1].temp_dir # 0 /\ req[r1].temp_dir # req[r2].temp_dir
        /\ temp_dirs = {req[r2].temp_dir}


-----------------------------------------------------------------------------
(* Mapping hot-reload *)

\* the file had another content and a later modification time when the
\* access began than when the previous access ended
ModifiedBetween(a) ==
    /\ a.began.content # a.before.content
    /\ a.began.mtime > a.before.mtime

\* the cache holds the forms of the file content, and nothing else
CacheOf(cache, content) ==
    /\ DOMAIN cache = DOMAIN content
    /\ \A name \in DOMAIN content :
        /\ cache[name].name = name
        /\ cache[name].kind = raw_get(content[name].v, "kind").v
        /\ cache[name].deal_fields = raw_get(content[name].v, "deal_fields").v
        /\ cache[name].contact_fields = raw_get(content[name].v, "contact_fields").v
        /\ cache[name].file_field_map = raw_get(content[name].v, "file_fields").v

\* what an access to a cache of the file content returns for the key
EntryOf(result, content, form_key) ==
    IF form_key \in DOMAIN content
    THEN /\ result.kind = raw_get(content[form_key].v, "kind").v
         /\ result.deal_fields = raw_get(content[form_key].v, "deal_fields").v
         /\ result.contact_fields = raw_get(content[form_key].v, "contact_fields").v
         /\ result.file_field_map = raw_get(content[form_key].v, "file_fields").v
    ELSE result = NoMapping

\* C16: when the file's content has changed and its modification time has
\* advanced between two get_form accesses, the second access reloads and
\* returns the entry of the file it has read, which is the modified file
\* or, when the editor writes again during the access, a later one; the
\* cache, and with it every answer, always holds the forms of
\* one single file version, never forms of two versions.
C16_HotReload ==
    /\ mapping_store.loaded =>
        \E v \in MappingVersions : CacheOf(mapping_store.cache, v)
    /\ access.pc = "done" =>
        /\ \E v \in MappingVersions :
            /\ CacheOf(mapping_store.cache, v)
            /\ EntryOf(access.result, v, access.form_key)
        /\ ModifiedBetween(access) =>
            /\ access.reloaded
            /\ access.source.mtime >= access.began.mtime
            /\ EntryOf(access.result, access.source.content, access.form_key)

\* an access served from the cache has been followed by an edit of the
\* file at a later time, and the next access has returned an entry that
\* differs from the one the old version has for the key
C16_Witness ==
    /\ access.pc = "done"
    /\ ModifiedBetween(access)
    /\ access.before.mtime > 1
    /\ access.source = access.began
    /\ access.form_key \in DOMAIN access.before.content
    /\ ~EntryOf(access.result, access.before.content, access.form_key)


-----------------------------------------------------------------------------
(* CRM-event intake *)

EventRecords(h) ==
    {j \in DOMAIN log : log[j].source = SOURCE_BITRIX /\ log[j].req = h}

PostsOf(h) == {i \in DOMAIN outbound : outbound[i].hook = h}

\* the record holds the body: the JSON value, or the fields of the form
HoldsBody(entry, body) ==
    IF body.kind = "json" THEN entry.payload_raw = body.value
    ELSE /\ entry.payload_raw.t = "dict"
         /\ DOMAIN entry.payload_raw.v = {body.items[i].key : i \in DOMAIN body.items}

\* C20: a CRM event is logged by the handler, before the response exists;
\* the response sent to the caller is "accepted" with status 200; the
\* forward runs only after the response has been sent, at most once, and
\* neither a failing post nor a forward that raises changes what the
\* caller has received.
C20_EventIntake ==
    \A h \in DOMAIN b24 :
        /\ b24[h].pc = "idle" =>
            /\ EventRecords(h) = {}
            /\ PostsOf(h) = {}
            /\ b24[h].sent = NoResponse
        /\ b24[h].pc # "idle" =>
            /\ Cardinality(EventRecords(h)) = 1
            /\ \A j \in EventRecords(h) : HoldsBody(log[j], b24[h].body)
        /\ b24[h].pc = "respond" =>
            /\ PostsOf(h) = {}
            /\ b24[h].sent = NoResponse
            /\ ~b24[h].raised
        /\ b24[h].pc \in {"task", "done"} => b24[h].sent = Accepted
        /\ Cardinality(PostsOf(h)) <= 1
        /\ \A i \in PostsOf(h) :
            /\ outbound[i].responded = Accepted
            /\ \E j \in EventRecords(h) : j <= outbound[i].logged

\* the post of one event has failed, the forward of another event has
\* raised, and both callers have received "accepted"
C20_Witness ==
    \E h1, h2 \in DOMAIN b24 :
        /\ b24[h1].pc = "done" /\ b24[h2].pc = "done"
        /\ \E i \in PostsOf(h1) : ~outbound[i].ok /\ outbound[i].json # b24[h1].payload
        /\ b24[h2].raised
        /\ b24[h1].sent = Accepted /\ b24[h2].sent = Accepted


-----------------------------------------------------------------------------
(* Form identity *)

\* the value is a string that holds more than blanks
HasText(value) == value.t = "str" /\ \E i \in DOMAIN value.v : value.v[i] # " "

\* trimmed is text without the blanks at its two ends
TrimOf(text, trimmed) ==
    \E i, j \in DOMAIN text :
        /\ text[i] # " " /\ text[j] # " "
        /\ \A k \in DOMAIN text : (k < i \/ k > j) => text[k] = " "
        /\ trimmed = SubSeq(text, i, j)

\* canonical is the entry of the alias table for name, or name itself
AliasOf(name, canonical) ==
    IF name = FORM_ALIAS_1 THEN canonical = FORM_MAIN
    ELSE IF name = FORM_ALIAS_2 THEN canonical = FORM_SECONDARY
    ELSE canonical = name

\* the positions of the precedence list whose key has a value with text
Identifying(payload) ==
    {i \in DOMAIN FORM_IDENTIFIER_KEYS :
        /\ FORM_IDENTIFIER_KEYS[i] \in DOMAIN payload
        /\ HasText(payload[FORM_IDENTIFIER_KEYS[i]])}

\* C21: with an override the form identity is the alias of the override;
\* without, it is the alias of the trimmed value of the first key of the
\* precedence list whose value is a string with text; when no key has
\* such a value the request ends as a client error (400).
C21_FormIdentity ==
    \A r \in DOMAIN req :
        Finished(r) =>
            IF req[r].forced.t = "str" /\ req[r].forced.v # <<>>
            THEN /\ req[r].status = 0
                 /\ AliasOf(req[r].forced.v, req[r].form_key)
            ELSE IF Identifying(req[r].payload) = {}
                 THEN req[r].status = 400
                 ELSE /\ req[r].status = 0
                      /\ \E i \in Identifying(req[r].payload) :
                            /\ \A j \in Identifying(req[r].payload) : i <= j
                            /\ \E k, l \in 1..Len(req[r].payload[FORM_IDENTIFIER_KEYS[i]].v) :
                                /\ TrimOf(req[r].payload[FORM_IDENTIFIER_KEYS[i]].v,
                                          SubSeq(req[r].payload[FORM_IDENTIFIER_KEYS[i]].v, k, l))
                                /\ AliasOf(SubSeq(req[r].payload[FORM_IDENTIFIER_KEYS[i]].v, k, l),
                                           req[r].form_key)

\* without override, the first key holds blanks only, a later key holds an
\* alias with a blank before it and the last key holds another name: the
\* identity is the canonical name of the alias
C21_Witness ==
    \E r \in DOMAIN req :
        /\ Finished(r)
        /\ req[r].forced = None
        /\ "formname" \in DOMAIN req[r].payload
        /\ req[r].payload["formname"] = S(<<" ", " ">>)
        /\ "form_uid" \in DOMAIN req[r].payload
        /\ req[r].payload["form_uid"] = S(<<" ">> \o FORM_ALIAS_2)
        /\ "lable" \in DOMAIN req[r].payload
        /\ req[r].payload["lable"] = S(FORM_ALIAS_1)
        /\ req[r].form_key = FORM_SECONDARY


-----------------------------------------------------------------------------
(* Phone canonicalization *)

RussianPrefixes == {<<"+", "7">>, <<"8">>, <<"7">>}

PH_CANONICAL == <<"7">> \o PH_AREA \o PH_LOCAL[1] \o PH_LOCAL[2] \o PH_LOCAL[3]

\* the payload holds the national number behind a Russian prefix, written
\* with some separators
IsWrittenRussian(payload) ==
    \E prefix \in RussianPrefixes, s1, s2, s3 \in PhoneSeparators :
        payload["phone"] = S(Written(prefix, s1, s2, s3))

\* C22: every writing of the same Russian number, with the prefix +7, 8 or
\* 7 and with any separators, gives the one digit string that starts with
\* 7; the result of any input holds no separator; and normalizing a result
\* once more gives the same result.
C22_PhoneCanonical ==
    \A r \in DOMAIN req :
        /\ req[r].pc \in {"normalized", "done"} =>
            /\ Len(req[r].search.phones) >= 1
            /\ IsWrittenRussian(req[r].payload) =>
                    req[r].search.phones[1] = PH_CANONICAL
            /\ \A i \in DOMAIN req[r].search.phones[1] :
                    req[r].search.phones[1][i] \notin {" ", "-", "(", ")"}
        /\ req[r].pc = "done" =>
            /\ Len(req[r].search.phones) = 2
            /\ req[r].search.phones[2] = req[r].search.phones[1]

\* the number written as "+7 (900) 123-45-67" has been normalized twice
C22_Witness ==
    \E r \in DOMAIN req :
        /\ req[r].pc = "done"
        /\ req[r].payload["phone"]
            = S(<<"+", "7", " ", "(", "9", "0", "0", ")", " ", "1", "2", "3", "-",
                  "4", "5", "-", "6", "7">>)
        /\ req[r].search.phones = <<PH_CANON, PH_CANON>>


-----------------------------------------------------------------------------
(* normalize *)

\* an entry that is not a list stays in a normalized list
StaysScalar(item) ==
    CASE item.t = "none" -> FALSE
      [] item.t = "str" -> HasText(item)
      [] OTHER -> TRUE

\* an entry stays in a normalized list
Stays(item) ==
    IF item.t = "list" THEN \E i \in DOMAIN item.v : StaysScalar(item.v[i])
    ELSE StaysScalar(item)

\* the place of entry j among the entries that stay
Rank(kept, j) == Cardinality({k \in kept : k <= j})

\* n is the normalized form of an entry that is not a list and stays
NormalScalar(item, n) ==
    IF item.t = "str" THEN n.t = "str" /\ TrimOf(item.v, n.v) ELSE n = item

\* n is the normalized form of a list of entries that are not lists
NormalFlat(items, n) ==
    IF \A j \in DOMAIN items : ~StaysScalar(items[j]) THEN n = None
    ELSE /\ n.t = "list"
         /\ Len(n.v) = Cardinality({j \in DOMAIN items : StaysScalar(items[j])})
         /\ \A j \in {k \in DOMAIN items : StaysScalar(items[k])} :
                NormalScalar(items[j],
                             n.v[Rank({k \in DOMAIN items : StaysScalar(items[k])}, j)])

NormalItem(item, n) ==
    IF item.t = "list" THEN NormalFlat(item.v, n) ELSE NormalScalar(item, n)

\* n is the normalized form of value
NormalOf(value, n) ==
    CASE value.t = "none" -> n = None
      [] value.t = "str" -> IF HasText(value) THEN NormalScalar(value, n) ELSE n = None
      [] value.t = "list" ->
            IF \A j \in DOMAIN value.v : ~Stays(value.v[j]) THEN n = None
            ELSE /\ n.t = "list"
                 /\ Len(n.v) = Cardinality({j \in DOMAIN value.v : Stays(value.v[j])})
                 /\ \A j \in {k \in DOMAIN value.v : Stays(value.v[k])} :
                        NormalItem(value.v[j],
                                   n.v[Rank({k \in DOMAIN value.v : Stays(value.v[k])}, j)])
      [] OTHER -> n = value

\* C23: normalize gives none for an empty or blank string and for a list
\* of which no entry stays after normalization; a returned list holds the
\* normalized forms of exactly the entries that are neither none nor empty
\* after normalization, in their original order; normalizing the result
\* once more gives the same result.
C23_Normalize ==
    \A r \in DOMAIN req :
        /\ req[r].pc \in {"normalized", "done"} =>
            NormalOf(dict_get(req[r].payload, "value"), req[r].deal_fields["value"])
        /\ req[r].pc = "done" =>
            req[r].deal_fields["again"] = req[r].deal_fields["value"]

\* the list [" ", "x ", ""] has been normalized to ["x"], twice
C23_Witness ==
    \E r \in DOMAIN req :
        /\ req[r].pc = "done"
        /\ dict_get(req[r].payload, "value")
            = L(<<S(<<" ">>), S(<<"x", " ">>), S(<<>>)>>)
        /\ req[r].deal_fields["value"] = L(<<S(<<"x">>)>>)
        /\ req[r].deal_fields["again"] = L(<<S(<<"x">>)>>)


-----------------------------------------------------------------------------
(* Deal field merge *)

\* the normalized values that the payload gives for the CRM field, in the
\* order of the mapping
RECURSIVE MappedValues(_, _, _)
MappedValues(pairs, payload, bitrix_field) ==
    IF pairs = <<>> THEN <<>>
    ELSE (IF Head(pairs).bitrix_field = bitrix_field
             /\ Head(pairs).form_field \in DOMAIN payload
             /\ normalize_value(payload[Head(pairs).form_field]) # None
          THEN <<normalize_value(payload[Head(pairs).form_field])>>
          ELSE <<>>)
         \o MappedValues(Tail(pairs), payload, bitrix_field)

\* the entries of the values, the entries of a list one by one
RECURSIVE Entries(_)
Entries(values) ==
    IF values = <<>> THEN <<>>
    ELSE (IF Head(values).t = "list" THEN Head(values).v ELSE <<Head(values)>>)
         \o Entries(Tail(values))

\* the base value of the CRM field, then the mapped values
Targeting(base_fields, pairs, payload, bitrix_field) ==
    (IF bitrix_field \in DOMAIN base_fields THEN <<base_fields[bitrix_field]>> ELSE <<>>)
    \o MappedValues(pairs, payload, bitrix_field)

BaseOf(rq) ==
    ("CATEGORY_ID" :> I(bitrix_category_applications_id))
    @@ ("STAGE_ID" :> S(bitrix_stage_applications_new))
    @@ ("SOURCE_ID" :> S(rq.form_key))

\* C24: the merge never overwrites.  A CRM field that the base and a
\* mapped field, or two mapped fields, target holds the list of the base
\* value first and the mapped values in mapping order; a CRM field
\* targeted once holds that one value; a CRM field that nothing targets is
\* not in the record, so a mapped field whose normalized value is none
\* changes nothing.
C24_MergeNeverOverwrites ==
    \A r \in DOMAIN req :
        Finished(r) =>
            \A bitrix_field \in MergeTargets \cup {"CATEGORY_ID", "STAGE_ID"} :
                IF Targeting(BaseOf(req[r]), req[r].mapping.deal_fields,
                             req[r].payload, bitrix_field) = <<>>
                THEN bitrix_field \notin DOMAIN req[r].deal_fields
                ELSE /\ bitrix_field \in DOMAIN req[r].deal_fields
                     /\ req[r].deal_fields[bitrix_field] =
                        IF Len(Targeting(BaseOf(req[r]), req[r].mapping.deal_fields,
                                         req[r].payload, bitrix_field)) = 1
                        THEN Targeting(BaseOf(req[r]), req[r].mapping.deal_fields,
                                       req[r].payload, bitrix_field)[1]
                        ELSE L(Entries(Targeting(BaseOf(req[r]),
                                                 req[r].mapping.deal_fields,
                                                 req[r].payload, bitrix_field)))

\* two form fields target the source field, which has a base value, a
\* third form field has no value: the source field holds the base value,
\* then the values of the two form fields in mapping order
C24_Witness ==
    \E r \in DOMAIN req :
        /\ Finished(r)
        /\ req[r].mapping.kind = "primary"
        /\ req[r].mapping.deal_fields
            = <<FieldPair("c", "SOURCE_ID"), FieldPair("b", "UF_B"),
                FieldPair("a", "SOURCE_ID")>>
        /\ req[r].payload
            = ("formname" :> S(FORM_MAIN)) @@ ("a" :> S(<<"x", " ">>))
              @@ ("b" :> S(<<" ">>)) @@ ("c" :> L(<<S(<<"p">>), S(<<"q">>)>>))
        /\ req[r].deal_fields
            = ("CATEGORY_ID" :> I(bitrix_category_applications_id))
              @@ ("STAGE_ID" :> S(bitrix_stage_applications_new))
              @@ ("SOURCE_ID" :> L(<<S(FORM_MAIN), S(<<"p">>), S(<<"q">>), S(<<"x">>)>>))


-----------------------------------------------------------------------------
(* Two submissions with uploads: both resolve the uploads folder through  *)
(* the one BitrixClient of the process (bitrix.py 103-127), on a disk     *)
(* that holds its root alone.                                             *)

\* a primary form that carries one file and no search value
SubmissionUpload ==
    Submission(None,
               ("formname" :> S(FORM_MAIN)) @@ ("format" :> S(KW_SHOW)),
               FilesOf("illustrations_show", 1))

InitFolders ==
    /\ InitRest
    /\ InitCrm((4 :> ContactD), (4 :> DealByCompanyId), RootOnly)
    /\ req = [r \in Pair |-> NewRequest(r, SubmissionUpload.forced,
                                         SubmissionUpload.payload,
                                         SubmissionUpload.uploads)]

NextFolders ==
    \E r \in Pair :
        \/ Receive(r)
        \/ CreateDeal(r)
        \/ StorageGetForUser(r)
        \/ GetChildren(r)
        \/ FolderAdd(r)
        \/ UploadFile(r)
        \/ UpdateDealFiles(r)
        \/ BitrixErrorRaised(r)
        \/ HttpErrorRaised(r)

SpecFolders == InitFolders /\ [][NextFolders]_vars


-----------------------------------------------------------------------------
(* C25: folder resolution is get-or-create behind a memo that is never    *)
(* invalidated.                                                           *)

\* the memo key of the folder the request r is resolving
KeyOf(rq) == cache_key(rq.fparent, rq.fname)

\* the children of the parent that are folders of the wanted name
Namesakes(rq) ==
    {id \in DOMAIN folders :
        /\ folders[id].PARENT_ID = rq.fparent
        /\ folders[id].NAME = rq.fname
        /\ folders[id].TYPE = "folder"}

\* the request r has moved and now rests at the first upload of a placement
StartsPlacement(r) ==
    /\ req'[r] # req[r]
    /\ req'[r].pc = "upload_file"
    /\ req'[r].k = 1
    /\ req'[r].file_ids = <<>>

\* r lists the children of a parent only for a key the memo did not hold
ListsOnlyOnMiss(r) ==
    (req'[r] # req[r] /\ req'[r].pc = "getchildren")
        => KeyOf(req'[r]) \notin DOMAIN client.folder_cache

\* a placement of r whose key the memo held before the step goes to the
\* memoized folder, and the step answers no folder call
HitReturnsMemo(r) ==
    (StartsPlacement(r) /\ KeyOf(req'[r]) \in DOMAIN client.folder_cache)
        => /\ req'[r].folder = client.folder_cache[KeyOf(req'[r])]
           /\ req[r].pc \notin {"getchildren", "folder_add"}

\* r asks for a new folder only after a listing without namesake, and a
\* listing with a namesake resolves to the first one
CreatesOnlyWithoutNamesake(r) ==
    /\ (req'[r] # req[r] /\ req'[r].pc = "folder_add")
           => /\ req[r].pc = "getchildren"
              /\ KeyOf(req'[r]) = KeyOf(req[r])
              /\ Namesakes(req[r]) = {}
    /\ (req[r].pc = "getchildren" /\ req'[r] # req[r] /\ Namesakes(req[r]) # {}
        /\ Len(calls') > Len(calls) /\ calls'[Len(calls')].ok)
           => /\ folders' = folders
              /\ KeyOf(req[r]) \in DOMAIN client'.folder_cache
              /\ client'.folder_cache[KeyOf(req[r])] \in Namesakes(req[r])

\* the memo never loses a key
MemoKept == DOMAIN client.folder_cache \subseteq DOMAIN client'.folder_cache

-----------------------------------------------------------------------------
(* C26: the folder memo under concurrent submissions.                     *)

\* C26: under every interleaving of concurrent submissions the folder memo
\* is append-only: a key that is bound stays bound, to the same folder id.
C26_MemoAppendOnly ==
    [][\A key \in DOMAIN client.folder_cache :
          /\ key \in DOMAIN client'.folder_cache
          /\ client'.folder_cache[key] = client.folder_cache[key]]_vars

\* the half that holds: no key is ever removed
C26_MemoKeepsKeys == [][MemoKept]_vars

\* two folders of the same name under the same parent, the memo bound to
\* the later one while a deal folder of the other submission lies under
\* the earlier one
C26_Rebound ==
    \E a, b \in DOMAIN folders :
        /\ a < b
        /\ folders[a].NAME = folders[b].NAME
        /\ folders[a].PARENT_ID = folders[b].PARENT_ID
        /\ folders[a].TYPE = "folder" /\ folders[b].TYPE = "folder"
        /\ cache_key(folders[a].PARENT_ID, folders[a].NAME) \in DOMAIN client.folder_cache
        /\ client.folder_cache[cache_key(folders[a].PARENT_ID, folders[a].NAME)] = b
        /\ \E d \in DOMAIN folders : folders[d].PARENT_ID = a


-----------------------------------------------------------------------------
(* C27: a reload that fails.                                              *)

\* the access has ended in this step with the error of _load
ReloadFails ==
    /\ access.pc # "done"
    /\ access'.pc = "done"
    /\ access'.result = ConfigError

\* the store changes only when _load ends, and then to the forms of one
\* version that parses
StoreSwapped ==
    mapping_store' # mapping_store
        => /\ access.pc = "record"
           /\ access'.pc = "done"
           /\ access'.result # ConfigError
           /\ mapping_store'.loaded
           /\ \E v \in MappingVersions : CacheOf(mapping_store'.cache, v)

\* after the failure the store is the one the access found, and
\* _ensure_loaded still decides to reload
StoreKept ==
    ReloadFails
        => /\ mapping_store' = mapping_store
           /\ needs_reload(mapping_store', mapping_file'.mtime)

\* the access that follows a failed one goes to _load
RetriesReload ==
    (access.pc = "done" /\ access.result = ConfigError /\ access' # access)
        => access'.pc = "load"

\* C27: a reload that fails with a configuration error leaves the cache
\* and the cached modification time as they were; the cache is at every
\* moment empty before the first load or the complete parse of one version;
\* the error ends the access that triggered the reload and no other; the
\* next access attempts the reload again.
C27_FailedReload ==
    /\ [](mapping_store.loaded => \E v \in MappingVersions :
                                       CacheOf(mapping_store.cache, v))
    /\ []((access.pc = "done" /\ access.prior = ConfigError) => access.reloaded)
    /\ []((access.pc = "done" /\ access.result = ConfigError)
             => (access.reloaded /\ load_fails(access.source.content)))
    /\ [][StoreSwapped /\ StoreKept /\ RetriesReload]_vars

\* a reload has failed on a file one of whose entries parses and another
\* does not, and the store still holds the forms and the time of the
\* version loaded before
C27_Witness ==
    /\ access.pc = "done"
    /\ access.result = ConfigError
    /\ access.source.content = MappingBroken
    /\ mapping_store.loaded
    /\ mapping_store.mtime < mapping_file.mtime
    /\ CacheOf(mapping_store.cache, MappingEdited)

\* an access has failed and the one after it, the file repaired, has
\* returned the form of the repaired file
C27_WitnessRecovered ==
    /\ access.pc = "done"
    /\ access.prior = ConfigError
    /\ access.form_key = FORM_NEW
    /\ access.result.kind = "primary"
    /\ CacheOf(mapping_store.cache, MappingEdited)


-----------------------------------------------------------------------------
(* C28: two submissions with the same phone number and ensure_contact.    *)

\* the phone numbers whose contacts have been listed
ListedPhones ==
    {calls[i].args.filter["PHONE"].v :
        i \in {j \in DOMAIN calls : /\ calls[j].method = "crm.contact.list"
                                    /\ "PHONE" \in DOMAIN calls[j].args.filter}}

\* the calls of r that list the contacts of a phone number
PhoneListings(r, phone) ==
    {i \in DOMAIN calls :
        /\ calls[i].req = r
        /\ calls[i].method = "crm.contact.list"
        /\ "PHONE" \in DOMAIN calls[i].args.filter
        /\ calls[i].args.filter["PHONE"] = S(phone)}

\* the calls of r that have created a contact
ContactAdds(r) ==
    {i \in DOMAIN calls :
        calls[i].req = r /\ calls[i].method = "crm.contact.add" /\ calls[i].ok}

\* the contacts the CRM holds for the phone number
ContactsOf(phone) ==
    {id \in DOMAIN contacts :
        /\ "PHONE" \in DOMAIN contacts[id]
        /\ \E n \in DOMAIN contacts[id]["PHONE"].v :
              contacts[id]["PHONE"].v[n].VALUE = phone}

\* C28: ensure_contact takes no lock.  A submission creates a contact
\* exactly when its listing of the phone number was answered before any
\* contact of that number existed, so two submissions with the same new
\* number both create one in the interleavings where both listings are
\* answered before either creation, and in no other.
C28_ContactRace ==
    \A r1, r2 \in DOMAIN req, phone \in ListedPhones :
        (r1 # r2 /\ PhoneListings(r1, phone) # {} /\ PhoneListings(r2, phone) # {})
            => \A add \in ContactAdds(r1) :
                 /\ \A i \in PhoneListings(r1, phone) : i < add
                 /\ ContactAdds(r2) # {} =>
                       \A j \in PhoneListings(r2, phone) : j < add

\* both submissions have ended with a deal, each with a contact of its
\* own, and the CRM holds two contacts for the one phone number
C28_Witness ==
    \E phone \in ListedPhones :
        /\ Cardinality(ContactsOf(phone)) = 2
        /\ \A r \in DOMAIN req :
              /\ req[r].pc = "done"
              /\ req[r].status = 200
              /\ PhoneListings(r, phone) # {}
              /\ ContactAdds(r) # {}
        /\ req[1].contact_id # req[2].contact_id


-----------------------------------------------------------------------------
(* One submission against a mapping file whose one form entry has any of  *)
(* a range of JSON shapes: _parse_form (mapping.py 75-106) as the request *)
(* meets it.                                                              *)

\* the member is not in the object
Absent == [t |-> "absent"]

OptMember(key, value) == IF value = Absent THEN <<>> ELSE <<Member(key, value)>>

DealSectionShapes ==
    {Absent, None, D(DealFieldMap), D(<<>>), S("TITLE"), S(""), L(<<"TITLE">>),
     L(<<>>), I(1), I(0)}

ContactSectionShapes == {Absent, D(ContactFieldMap), L(<<"PHONE">>), I(0)}

FileSectionShapes == {Absent, D(KW_SHOW :> "UF_CRM_SHOW"), I(1)}

KindShapes == {Absent, S("primary"), S("secondary")}

\* objects: with or without a string member and a number member that are
\* no section, and with each section present in some shape or absent
ObjectShapes ==
    {D(OptMember("inn", text) \o OptMember("priority", number)
       \o OptMember("kind", kind) \o OptMember("deal_fields", deal)
       \o OptMember("contact_fields", contact) \o OptMember("file_fields", file)) :
        text \in {Absent, S("UF_INN")}, number \in {Absent, I(1)},
        kind \in KindShapes, deal \in DealSectionShapes,
        contact \in ContactSectionShapes, file \in FileSectionShapes}

\* what a form entry of the file may be
EntryShapes == ObjectShapes \cup {None, S("UF_INN"), I(1), L(<<"UF_INN">>)}

InitParse ==
    \E raw \in EntryShapes :
        /\ InitCrm(NoRecords, NoRecords, RootOnly)
        /\ mapping_file = [content |-> FORM_MAIN :> raw, mtime |-> 1]
        /\ mapping_store = Unloaded
        /\ access = NoAccess(mapping_file)
        /\ settings = DefaultSettings /\ b24 = <<>> /\ outbound = <<>>
        /\ req = [r \in Requests |->
                    NewRequest(r, None, ("formname" :> S(FORM_MAIN))
                                        @@ ("format" :> S(FMT_NONE)), <<>>)]

NextParse == \E r \in Requests : Receive(r)

SpecParse == InitParse /\ [][NextParse]_vars

-----------------------------------------------------------------------------
(* C29: the shapes of a form entry that _parse_form accepts.              *)

\* a flat map: an object with members, every value a string
IsFlat(raw) == raw.t = "dict" /\ raw.v # <<>> /\ all_strings(raw.v)

SectionKeys == {"deal_fields", "contact_fields", "file_fields"}

ExplicitKeys == SectionKeys \cup {"kind", "participation_field", "search"}

\* a structured object: an object with at least one of the explicit keys,
\* whose sections, where present, are objects
IsStructured(raw) ==
    /\ raw.t = "dict"
    /\ \E key \in ExplicitKeys : raw_has(raw.v, key)
    /\ \A key \in SectionKeys :
          raw_has(raw.v, key) => raw_get(raw.v, key).t = "dict"

\* the entry of the form in the file the request has met
EntryMet == mapping_file.content[FORM_MAIN]

\* the request has ended on the error of _load
Rejected(r) == req[r].pc = "done" /\ req[r].status = 500 /\ ~mapping_store.loaded

\* C29: a form entry that is neither a flat string-to-string map nor a
\* structured object with the explicit keys is rejected with a
\* configuration error when the file is loaded, and parsed into no mapping.
C29_OtherShapesRejected ==
    \A r \in DOMAIN req :
        (req[r].pc # "idle" /\ ~IsFlat(EntryMet) /\ ~IsStructured(EntryMet))
            => Rejected(r)

\* what the code does reject: an entry that is no object, and an object
\* with a section that is neither an object nor a value Python takes for
\* false
C29_Rejects ==
    \A r \in DOMAIN req :
        req[r].pc # "idle" =>
            (Rejected(r) <=>
                \/ EntryMet.t # "dict"
                \/ /\ ~IsFlat(EntryMet)
                   /\ \E key \in SectionKeys :
                         /\ truthy(raw_get(EntryMet.v, key))
                         /\ raw_get(EntryMet.v, key).t # "dict")

\* an empty object has been parsed into a primary form without fields
C29_EmptyObjectParsed ==
    \E r \in DOMAIN req :
        /\ req[r].pc = "done"
        /\ EntryMet = D(<<>>)
        /\ req[r].status = 400
        /\ mapping_store.loaded
        /\ req[r].mapping.kind = "primary"
        /\ req[r].mapping.deal_fields = <<>>


-----------------------------------------------------------------------------
(* One submission of a primary form whose mapping may send form fields to *)
(* the CRM fields that handle_primary_form sets itself (main.py 447-451). *)

BaseTargets == {"CATEGORY_ID", "STAGE_ID", "SOURCE_ID", "UF_A"}

BaseValues == {None, S(<<"x", " ">>), L(<<S(<<"p">>), S(<<"q">>)>>)}

InitBaseFields ==
    \E ta \in BaseTargets, tb \in BaseTargets, a \in BaseValues, b \in BaseValues,
       format \in {KW_SHOW, FMT_BOTH} :
        /\ InitCrm(NoRecords, NoRecords, RootOnly)
        /\ req = [r \in Requests |->
                    NewRequest(r, None,
                               ("formname" :> S(FORM_MAIN)) @@ ("format" :> S(format))
                               @@ Opt("a", a) @@ Opt("b", b),
                               <<>>)]
        /\ mapping_file =
            [content |-> FORM_MAIN :> RawForm("primary",
                                              <<FieldPair("a", ta), FieldPair("b", tb)>>,
                                              <<>>, EmptyDict),
             mtime |-> 1]
        /\ mapping_store = Unloaded
        /\ access = NoAccess(mapping_file)
        /\ settings = DefaultSettings
        /\ b24 = <<>>
        /\ outbound = <<>>

NextBaseFields ==
    \E r \in Requests :
        \/ Receive(r)
        \/ CreateDeal(r)
        \/ BitrixErrorRaised(r)
        \/ HttpErrorRaised(r)

SpecBaseFields == InitBaseFields /\ [][NextBaseFields]_vars

-----------------------------------------------------------------------------
(* C30: the category, the stage and the source of a fan-out deal.         *)

\* the calls that have created a deal
DealAdds == {i \in DOMAIN calls : calls[i].method = "crm.deal.add" /\ calls[i].ok}

BaseKeys == {"CATEGORY_ID", "STAGE_ID", "SOURCE_ID"}

\* what the mapping sends to the CRM field for the payload of the request
MappedTo(rq, bitrix_field) ==
    Entries(MappedValues(rq.mapping.deal_fields, rq.payload, bitrix_field))

\* the claim as first stated: each of the three is the single base value
C30_BaseFieldsSingle ==
    \A i \in DealAdds : \A key \in BaseKeys :
        /\ key \in DOMAIN calls[i].args.fields
        /\ calls[i].args.fields[key] = BaseOf(req[calls[i].req])[key]

\* C30: every deal created by the primary fan-out carries CATEGORY_ID,
\* STAGE_ID and SOURCE_ID with the fixed applications category id, the
\* fixed 'new' stage and the form identity: as the single value when the
\* mapping sends no value of the payload to that CRM field, and otherwise
\* as a list of that base value followed by the mapped values.
C30_BaseFieldsFirst ==
    \A i \in DealAdds : \A key \in BaseKeys :
        /\ key \in DOMAIN calls[i].args.fields
        /\ calls[i].args.fields[key] =
            IF MappedTo(req[calls[i].req], key) = <<>>
            THEN BaseOf(req[calls[i].req])[key]
            ELSE L(<<BaseOf(req[calls[i].req])[key]>> \o MappedTo(req[calls[i].req], key))

\* two deals of one submission, both with the form identity and two mapped
\* values as their source, and with the single category and stage
C30_Witness ==
    /\ Cardinality(DealAdds) = 2
    /\ \A i \in DealAdds :
          /\ calls[i].args.fields["SOURCE_ID"]
                = L(<<S(FORM_MAIN), S(<<"p">>), S(<<"q">>)>>)
          /\ calls[i].args.fields["CATEGORY_ID"] = I(bitrix_category_applications_id)
          /\ calls[i].args.fields["STAGE_ID"] = S(bitrix_stage_applications_new)
    /\ \A id \in DOMAIN deals : deals[id]["SOURCE_ID"].t = "list"
    /\ Cardinality(DOMAIN deals) = 2


-----------------------------------------------------------------------------
(* C31: the modification time that _load records.                         *)

\* the access has reloaded and returned
Reloaded == access.pc = "done" /\ access.reloaded /\ access.result # ConfigError

\* C31: after every reload the cached modification time is that of the
\* file version whose content was parsed into the cache, and so a version
\* saved with a later time while the reload was in progress still makes
\* the next access reload.
C31_MtimeOfParsedVersion ==
    Reloaded =>
        /\ CacheOf(mapping_store.cache, access.source.content)
        /\ mapping_store.mtime = access.source.mtime
        /\ mapping_file.mtime > access.source.mtime
              => needs_reload(mapping_store, mapping_file.mtime)

\* the half that holds: the cache is the parse of the version that was
\* read, and the recorded time is that of the file when _load ended
C31_MtimeOfFinalStat ==
    Reloaded =>
        /\ CacheOf(mapping_store.cache, access.source.content)
        /\ mapping_store.mtime = access.ended.mtime

\* the cache stays stale: a reload has ended with the forms of the version
\* it read in the cache and the time of a version saved later, during the
\* reload, with other forms; the file still holds that later version and
\* _ensure_loaded does not decide to reload
C31_Stale ==
    /\ Reloaded
    /\ access.source.mtime < access.ended.mtime
    /\ access.source.content # access.ended.content
    /\ mapping_file = access.ended
    /\ CacheOf(mapping_store.cache, access.source.content)
    /\ ~CacheOf(mapping_store.cache, mapping_file.content)
    /\ mapping_store.mtime = mapping_file.mtime
    /\ ~needs_reload(mapping_store, mapping_file.mtime)

=====
